---- MODULE Spec2Model ----
(***************************************************************************)
(* Model of logdb (src/logdb.h): a log-structured record store made of a   *)
(* data file and an index file.                                            *)
(*                                                                         *)
(* Files are sequences of cells.  One cell stands for one field of an      *)
(* on-disk struct (or one payload byte); a cell holding 0 stands for zero  *)
(* bytes.  Sizes and offsets are counted in cells.  The cosmetic banner    *)
(* text of the headers and the struct padding are left out.                *)
(*                                                                         *)
(* Each FILE* stream (dat_fp, idx_fp) owns a write buffer: fwrite() puts   *)
(* cells in the buffer, and fseek(), fflush() and fclose() move them to    *)
(* the file.  The read descriptors (dat_fd, idx_fd) see the file only.     *)
(* The model takes records to be smaller than the stdio buffer.            *)
(***************************************************************************)
EXTENDS Integers, Sequences, FiniteSets, TLC

(***************************************************************************)
(* Bounds of the model.                                                    *)
(***************************************************************************)
MaxSeqnum == 3
MaxTimestamp == 2
MaxBatch == 2
MaxWritten == 2
MaxMilestone == 1

(***************************************************************************)
(* Program constants.                                                      *)
(***************************************************************************)
LDB_OK == 0
LDB_ERR == -1
LDB_ERR_ARG == -2
LDB_ERR_OPEN_DAT == -6
LDB_ERR_READ_DAT == -7
LDB_ERR_WRITE_DAT == -8
LDB_ERR_OPEN_IDX == -9
LDB_ERR_READ_IDX == -10
LDB_ERR_WRITE_IDX == -11
LDB_ERR_FMT_DAT == -12
LDB_ERR_FMT_IDX == -13
LDB_ERR_ENTRY_SEQNUM == -14
LDB_ERR_ENTRY_TIMESTAMP == -15
LDB_ERR_ENTRY_METADATA == -16
LDB_ERR_ENTRY_DATA == -17
LDB_ERR_NOT_FOUND == -18
LDB_ERR_TMP_FILE == -19
LDB_ERR_CHECKSUM == -20

\* the 64-bit magic number, scaled to one small cell value
LDB_MAGIC_NUMBER == 11
LDB_FORMAT_1 == 1
LDB_SEARCH_LOWER == 0
LDB_SEARCH_UPPER == 1

\* sizeof() of the on-disk structs, in cells
\* ldb_header_dat_t: magic_number, format, milestone
sizeof_header_dat == 3
\* offsetof(ldb_header_dat_t, milestone)
offsetof_milestone == 2
\* ldb_header_idx_t: magic_number, format
sizeof_header_idx == 2
\* ldb_record_dat_t: seqnum, timestamp, metadata_len, data_len, checksum
sizeof_record_dat == 5
\* ldb_record_idx_t: seqnum, timestamp, pos
sizeof_record_idx == 3

\* a NULL pointer to entry memory (memory cells are never negative)
NULL == << -1 >>

\* modulus of the checksum, which keeps it within the integers of the checker
CrcModulus == 67108864

(***************************************************************************)
(* Helpers on sequences of cells.                                          *)
(***************************************************************************)
ldb_min(a, b) == IF a < b THEN a ELSE b

ldb_max(a, b) == IF a > b THEN a ELSE b

Zeros(n) == [i \in 1..n |-> 0]

\* read(fd, buf, n) at offset pos: the cells [pos, pos+n), fewer at end of file
ReadAt(bytes, pos, n) ==
    IF pos >= Len(bytes) THEN << >>
    ELSE SubSeq(bytes, pos + 1, ldb_min(pos + n, Len(bytes)))

\* write of data at offset pos; a hole beyond the end of file reads as zero
WriteAt(bytes, pos, data) ==
    IF data = << >> THEN bytes
    ELSE [i \in 1..ldb_max(Len(bytes), pos + Len(data)) |->
            IF i > pos /\ i <= pos + Len(data) THEN data[i - pos]
            ELSE IF i <= Len(bytes) THEN bytes[i]
            ELSE 0]

(***************************************************************************)
(* Checksum.  ldb_crc32 folds the bytes into the running checksum, so that *)
(* crc(a \o b, c) = crc(b, crc(a, c)) and crc(<<>>, c) = c.  The CRC-32     *)
(* polynomial division is modelled by a positional hash of the same shape. *)
(***************************************************************************)
RECURSIVE ldb_crc32(_, _)
ldb_crc32(bytes, checksum) ==
    IF bytes = << >> THEN checksum
    ELSE ldb_crc32(Tail(bytes), (checksum * 17 + (Head(bytes) % 16) + 1) % CrcModulus)

ldb_checksum_record(record) ==
    ldb_crc32(<< record.seqnum, record.timestamp, record.metadata_len, record.data_len >>, 0)

\* the two conditional steps of ldb_checksum_entry
ChecksumMetadata(entry, checksum) ==
    IF entry.metadata_len # 0 /\ entry.metadata # NULL
    THEN ldb_crc32(SubSeq(entry.metadata, 1, entry.metadata_len), checksum)
    ELSE checksum

ChecksumData(entry, checksum) ==
    IF entry.data_len # 0 /\ entry.data # NULL
    THEN ldb_crc32(SubSeq(entry.data, 1, entry.data_len), checksum)
    ELSE checksum

ldb_checksum_entry(entry) ==
    ChecksumData(entry,
        ChecksumMetadata(entry,
            ldb_crc32(<< entry.seqnum, entry.timestamp, entry.metadata_len, entry.data_len >>, 0)))

(***************************************************************************)
(* The state of the program: the three files of the directory and the      *)
(* ldb_db_t object.                                                        *)
(***************************************************************************)
\* ldb_state_t
ZeroState == [seqnum1 |-> 0, timestamp1 |-> 0, seqnum2 |-> 0, timestamp2 |-> 0, milestone |-> 0]

\* an empty stdio write buffer
NoBuf == [pos |-> 0, bytes |-> << >>]

\* a file that does not exist
NoFile == [exists |-> FALSE, bytes |-> << >>]

\* ldb_db_t after memset/ldb_free_db: no stream, no descriptor
ClosedObj ==
    [dat_fp |-> FALSE, idx_fp |-> FALSE, dat_fd |-> FALSE, idx_fd |-> FALSE,
     dat_end |-> 0, format |-> 0, state |-> ZeroState,
     dat_buf |-> NoBuf, idx_buf |-> NoBuf, dat_error |-> FALSE, idx_error |-> FALSE]

ZeroRecordDat == [seqnum |-> 0, timestamp |-> 0, metadata_len |-> 0, data_len |-> 0, checksum |-> 0]

ZeroRecordIdx == [seqnum |-> 0, timestamp |-> 0, pos |-> 0]

RecordIdxCells(record) == << record.seqnum, record.timestamp, record.pos >>

HeaderDatCells(milestone) == << LDB_MAGIC_NUMBER, LDB_FORMAT_1, milestone >>

HeaderIdxCells == << LDB_MAGIC_NUMBER, LDB_FORMAT_1 >>

\* fflush(dat_fp), also done by fseek(dat_fp) and fclose(dat_fp)
FlushDat(w) ==
    [w EXCEPT !.fs.dat.bytes = WriteAt(@, w.obj.dat_buf.pos, w.obj.dat_buf.bytes),
              !.obj.dat_buf = NoBuf]

\* fflush(idx_fp), also done by fseek(idx_fp) and fclose(idx_fp)
\* a variant of fflush(idx_fp) that leaves the buffer as it is
FlushIdx_None(w) == w

FlushIdx(w) ==
    [w EXCEPT !.fs.idx.bytes = WriteAt(@, w.obj.idx_buf.pos, w.obj.idx_buf.bytes),
              !.obj.idx_buf = NoBuf]

\* fseek(dat_fp, pos) followed by fwrite() calls of the given cells
FwriteDat(w, pos, bytes) ==
    [FlushDat(w) EXCEPT !.obj.dat_buf = [pos |-> pos, bytes |-> bytes]]

\* fseek(idx_fp, pos) followed by fwrite() calls of the given cells
FwriteIdx(w, pos, bytes) ==
    [FlushIdx(w) EXCEPT !.obj.idx_buf = [pos |-> pos, bytes |-> bytes]]

ldb_is_valid_db(obj) ==
    /\ obj.dat_fp /\ ~obj.dat_error
    /\ obj.idx_fp /\ ~obj.idx_error
    /\ obj.dat_fd
    /\ obj.idx_fd

\* the mutation of C23: the streams are closed without being flushed
ldb_close_files_NoFlush(w) ==
    [w EXCEPT !.obj.dat_fp = FALSE, !.obj.idx_fp = FALSE,
              !.obj.dat_fd = FALSE, !.obj.idx_fd = FALSE,
              !.obj.dat_buf = NoBuf, !.obj.idx_buf = NoBuf,
              !.obj.dat_error = FALSE, !.obj.idx_error = FALSE,
              !.obj.dat_end = 0]

ldb_close_files(w) ==
    LET w1 == IF w.obj.idx_fp THEN FlushIdx(w) ELSE w
        w2 == IF w1.obj.dat_fp THEN FlushDat(w1) ELSE w1
    IN  [w2 EXCEPT !.obj.dat_fp = FALSE, !.obj.idx_fp = FALSE,
                   !.obj.dat_fd = FALSE, !.obj.idx_fd = FALSE,
                   !.obj.dat_buf = NoBuf, !.obj.idx_buf = NoBuf,
                   !.obj.dat_error = FALSE, !.obj.idx_error = FALSE,
                   !.obj.dat_end = 0]

ldb_free_db(w) ==
    [ldb_close_files(w) EXCEPT !.obj.state = ZeroState, !.obj.format = 0]

\* the remove() + fopen("wx") + fwrite(header) + fclose of ldb_create_file_dat
ldb_create_file_dat(w) ==
    IF w.fs.dat.exists THEN [ok |-> FALSE, w |-> w]
    ELSE [ok |-> TRUE, w |-> [w EXCEPT !.fs.dat = [exists |-> TRUE, bytes |-> HeaderDatCells(0)]]]

ldb_create_file_idx(w) ==
    IF w.fs.idx.exists THEN [ok |-> FALSE, w |-> w]
    ELSE [ok |-> TRUE, w |-> [w EXCEPT !.fs.idx = [exists |-> TRUE, bytes |-> HeaderIdxCells]]]

\* ldb_zeroize on a file whose stream buffer was flushed by ldb_get_file_size
Zeroize(bytes, pos) ==
    [i \in 1..Len(bytes) |-> IF i > pos THEN 0 ELSE bytes[i]]

\* the mutation of C39: the zeros start one cell before pos
ldb_zeroize_dat_Early(w, pos) ==
    LET w1 == FlushDat(w)
    IN  IF Len(w1.fs.dat.bytes) < pos THEN [ok |-> FALSE, w |-> w1]
        ELSE [ok |-> TRUE, w |-> [w1 EXCEPT !.fs.dat.bytes = Zeroize(@, pos - 1)]]

\* the mutation of C17: nothing is set to zero
ldb_zeroize_dat_None(w, pos) == [ok |-> TRUE, w |-> FlushDat(w)]

ldb_zeroize_dat(w, pos) ==
    LET w1 == FlushDat(w)
    IN  IF Len(w1.fs.dat.bytes) < pos THEN [ok |-> FALSE, w |-> w1]
        ELSE [ok |-> TRUE, w |-> [w1 EXCEPT !.fs.dat.bytes = Zeroize(@, pos)]]

ldb_zeroize_idx(w, pos) ==
    LET w1 == FlushIdx(w)
    IN  IF Len(w1.fs.idx.bytes) < pos THEN [ok |-> FALSE, w |-> w1]
        ELSE [ok |-> TRUE, w |-> [w1 EXCEPT !.fs.idx.bytes = Zeroize(@, pos)]]

ldb_get_pos_idx(state, seqnum) ==
    LET diff == IF state.seqnum1 = 0 THEN 0 ELSE seqnum - state.seqnum1
    IN  sizeof_header_idx + diff * sizeof_record_idx

(***************************************************************************)
(* Reading records.                                                        *)
(***************************************************************************)
\* the struct held by the first sizeof_record_dat cells of a buffer
RecordDatOf(cells) ==
    [seqnum |-> cells[1], timestamp |-> cells[2], metadata_len |-> cells[3],
     data_len |-> cells[4], checksum |-> cells[5]]

RecordIdxOf(cells) ==
    [seqnum |-> cells[1], timestamp |-> cells[2], pos |-> cells[3]]

\* the verification of the checksum at the end of ldb_read_record_dat
\* a variant that takes a record for valid without reading its payload
VerifyRecordDat_Unread(bytes, pos, record) == [ret |-> LDB_OK, record |-> record]

\* the mutation of C29: a checksum that does not verify is taken as a record
\* that is not whole
VerifyRecordDat_Fmt(bytes, pos, record) ==
    LET len == record.metadata_len + record.data_len
        payload == ReadAt(bytes, pos + sizeof_record_dat, len)
    IN  IF len > 0 /\ Len(payload) # len
        THEN [ret |-> LDB_ERR_FMT_DAT, record |-> record]
        ELSE IF ldb_crc32(payload, ldb_checksum_record(record)) # record.checksum
        THEN [ret |-> LDB_ERR_FMT_DAT, record |-> record]
        ELSE [ret |-> LDB_OK, record |-> record]

VerifyRecordDat(bytes, pos, record) ==
    LET len == record.metadata_len + record.data_len
        payload == ReadAt(bytes, pos + sizeof_record_dat, len)
    IN  IF len > 0 /\ Len(payload) # len
        THEN [ret |-> LDB_ERR_FMT_DAT, record |-> record]
        ELSE IF ldb_crc32(payload, ldb_checksum_record(record)) # record.checksum
        THEN [ret |-> LDB_ERR_CHECKSUM, record |-> record]
        ELSE [ret |-> LDB_OK, record |-> record]

\* bytes is the content of the data file as the descriptor sees it
ldb_read_record_dat(bytes, pos, verify_checksum) ==
    LET hdr == ReadAt(bytes, pos, sizeof_record_dat)
    IN  IF Len(hdr) # sizeof_record_dat
        THEN [ret |-> LDB_ERR_FMT_DAT, record |-> ZeroRecordDat]
        ELSE IF ~verify_checksum \/ RecordDatOf(hdr).seqnum = 0
        THEN [ret |-> LDB_OK, record |-> RecordDatOf(hdr)]
        ELSE VerifyRecordDat(bytes, pos, RecordDatOf(hdr))

\* an entry whose memory was not allocated yet
ZeroEntry ==
    [seqnum |-> 0, timestamp |-> 0, metadata_len |-> 0, data_len |-> 0,
     metadata |-> NULL, data |-> NULL]

\* the part of ldb_read_entry_dat that follows the read of the record:
\* allocation, read of metadata and data, checksum
ReadEntryPayload(bytes, pos, record) ==
    LET metadata == ReadAt(bytes, pos + sizeof_record_dat, record.metadata_len)
        data == ReadAt(bytes, pos + sizeof_record_dat + record.metadata_len, record.data_len)
        alloc == [ZeroEntry EXCEPT !.metadata_len = record.metadata_len,
                                   !.data_len = record.data_len]
        entry == [seqnum |-> record.seqnum, timestamp |-> record.timestamp,
                  metadata_len |-> record.metadata_len, data_len |-> record.data_len,
                  metadata |-> metadata, data |-> data]
    IN  IF record.metadata_len # 0 /\ Len(metadata) # record.metadata_len
        THEN [ret |-> LDB_ERR_FMT_DAT, entry |-> alloc]
        ELSE IF record.data_len # 0 /\ Len(data) # record.data_len
        THEN [ret |-> LDB_ERR_FMT_DAT, entry |-> [alloc EXCEPT !.metadata = metadata]]
        ELSE IF record.checksum # ldb_checksum_entry(entry)
        THEN [ret |-> LDB_ERR_CHECKSUM, entry |-> entry]
        ELSE [ret |-> LDB_OK, entry |-> entry]

ldb_read_entry_dat(bytes, pos) ==
    LET r == ldb_read_record_dat(bytes, pos, FALSE)
    IN  IF r.ret # LDB_OK THEN [ret |-> r.ret, entry |-> ZeroEntry]
        ELSE ReadEntryPayload(bytes, pos, r.record)

\* bytes is the content of the index file as the descriptor sees it
ldb_read_record_idx(bytes, state, seqnum) ==
    IF state.seqnum1 = 0 \/ seqnum < state.seqnum1 \/ state.seqnum2 < seqnum
    THEN [ret |-> LDB_ERR, record |-> ZeroRecordIdx]
    ELSE IF seqnum = state.seqnum1
    THEN [ret |-> LDB_OK,
          record |-> [seqnum |-> state.seqnum1, timestamp |-> state.timestamp1,
                      pos |-> sizeof_header_dat]]
    ELSE
    LET cells == ReadAt(bytes, ldb_get_pos_idx(state, seqnum), sizeof_record_idx)
    IN  IF Len(cells) # sizeof_record_idx
        THEN [ret |-> LDB_ERR_READ_IDX, record |-> ZeroRecordIdx]
        ELSE IF RecordIdxOf(cells).seqnum # seqnum
        THEN [ret |-> LDB_ERR, record |-> RecordIdxOf(cells)]
        ELSE [ret |-> LDB_OK, record |-> RecordIdxOf(cells)]

(***************************************************************************)
(* Appending records (writer side).                                        *)
(***************************************************************************)
\* fault = "dat": fseek(dat_fp) fails and nothing is written; fault = "idx":
\* fwrite(idx_fp) fails and sets the error indicator of the stream;
\* fault = "none": the file system accepts the writes
\* the mutation of C2: the seqnum of the entry is not compared with the last one
CheckEntry_AnySeqnum(state, entry) ==
    IF entry.metadata_len # 0 /\ entry.metadata = NULL THEN LDB_ERR_ENTRY_METADATA
    ELSE IF entry.data_len # 0 /\ entry.data = NULL THEN LDB_ERR_ENTRY_DATA
    ELSE IF entry.timestamp < state.timestamp2 THEN LDB_ERR_ENTRY_TIMESTAMP
    ELSE LDB_OK

\* the mutation of C3: the timestamp of the entry is not compared with the last one
CheckEntry_AnyTimestamp(state, entry) ==
    IF entry.metadata_len # 0 /\ entry.metadata = NULL THEN LDB_ERR_ENTRY_METADATA
    ELSE IF entry.data_len # 0 /\ entry.data = NULL THEN LDB_ERR_ENTRY_DATA
    ELSE IF state.seqnum2 # 0 /\ entry.seqnum # state.seqnum2 + 1 THEN LDB_ERR_ENTRY_SEQNUM
    ELSE LDB_OK

\* the checks of ldb_append_entry_dat on the entry, in the order of the code
CheckEntry(state, entry) ==
    IF entry.metadata_len # 0 /\ entry.metadata = NULL THEN LDB_ERR_ENTRY_METADATA
    ELSE IF entry.data_len # 0 /\ entry.data = NULL THEN LDB_ERR_ENTRY_DATA
    ELSE IF state.seqnum2 # 0 /\ entry.seqnum # state.seqnum2 + 1 THEN LDB_ERR_ENTRY_SEQNUM
    ELSE IF entry.timestamp < state.timestamp2 THEN LDB_ERR_ENTRY_TIMESTAMP
    ELSE LDB_OK

\* the cells of an entry in the data file: the record and the payload
EntryCells(entry) ==
    << entry.seqnum, entry.timestamp, entry.metadata_len, entry.data_len,
       ldb_checksum_entry(entry) >>
    \o (IF entry.metadata_len # 0
        THEN SubSeq(entry.metadata, 1, entry.metadata_len) ELSE << >>)
    \o (IF entry.data_len # 0
        THEN SubSeq(entry.data, 1, entry.data_len) ELSE << >>)

\* the writes of ldb_append_entry_dat and its update of state and dat_end
\* the mutation of C21: dat_end is moved past the record without its payload
WriteEntryDat_NoPayload(w, state, entry, cells) ==
    [ret |-> LDB_OK,
     w |-> [FwriteDat(w, w.obj.dat_end, cells) EXCEPT
              !.obj.dat_end = w.obj.dat_end + sizeof_record_dat],
     state |-> [state EXCEPT
                  !.seqnum1 = IF state.seqnum1 = 0 THEN entry.seqnum ELSE @,
                  !.timestamp1 = IF state.seqnum1 = 0 THEN entry.timestamp ELSE @,
                  !.seqnum2 = entry.seqnum,
                  !.timestamp2 = entry.timestamp]]

WriteEntryDat(w, state, entry, cells) ==
    [ret |-> LDB_OK,
     w |-> [FwriteDat(w, w.obj.dat_end, cells) EXCEPT
              !.obj.dat_end = w.obj.dat_end + Len(cells)],
     state |-> [state EXCEPT
                  !.seqnum1 = IF state.seqnum1 = 0 THEN entry.seqnum ELSE @,
                  !.timestamp1 = IF state.seqnum1 = 0 THEN entry.timestamp ELSE @,
                  !.seqnum2 = entry.seqnum,
                  !.timestamp2 = entry.timestamp]]

ldb_append_entry_dat(w, state, entry, fault) ==
    IF CheckEntry(state, entry) # LDB_OK
    THEN [ret |-> CheckEntry(state, entry), w |-> w, state |-> state]
    ELSE IF fault = "dat"
    THEN [ret |-> LDB_ERR_WRITE_DAT, w |-> w, state |-> state]
    ELSE WriteEntryDat(w, state, entry, EntryCells(entry))

ldb_append_record_idx(w, state, record, fault) ==
    IF record.seqnum # state.seqnum2
    THEN [ret |-> LDB_ERR, w |-> w]
    ELSE IF fault = "idx"
    THEN [ret |-> LDB_ERR_WRITE_IDX, w |-> [FlushIdx(w) EXCEPT !.obj.idx_error = TRUE]]
    ELSE [ret |-> LDB_OK,
          w |-> FwriteIdx(w, ldb_get_pos_idx(state, record.seqnum), RecordIdxCells(record))]

(***************************************************************************)
(* Opening the data file.                                                  *)
(***************************************************************************)
\* the forward scan of ldb_open_file_dat (check = true), from offset pos on;
\* zeroize tells whether the scan left through LDB_OPEN_FILE_DAT_ZEROIZE
RECURSIVE ScanDat(_, _, _)
ScanDat(bytes, pos, state) ==
    IF pos + sizeof_record_dat > Len(bytes)
    THEN [ret |-> LDB_OK, zeroize |-> FALSE, pos |-> pos, state |-> state]
    ELSE
    LET r == ldb_read_record_dat(bytes, pos, TRUE)
    IN  IF r.ret = LDB_ERR_FMT_DAT
        THEN [ret |-> LDB_OK, zeroize |-> TRUE, pos |-> pos, state |-> state]
        ELSE IF r.ret # LDB_OK
        THEN [ret |-> r.ret, zeroize |-> FALSE, pos |-> pos, state |-> state]
        ELSE IF r.record.seqnum = 0
        THEN [ret |-> LDB_OK, zeroize |-> TRUE, pos |-> pos, state |-> state]
        ELSE IF r.record.seqnum # state.seqnum2 + 1
        THEN [ret |-> LDB_ERR_FMT_DAT, zeroize |-> FALSE, pos |-> pos, state |-> state]
        ELSE IF r.record.timestamp < state.timestamp2
        THEN [ret |-> LDB_ERR_FMT_DAT, zeroize |-> FALSE, pos |-> pos, state |-> state]
        ELSE ScanDat(bytes,
                     pos + sizeof_record_dat + r.record.metadata_len + r.record.data_len,
                     [state EXCEPT !.seqnum2 = r.record.seqnum,
                                   !.timestamp2 = r.record.timestamp])

\* the exit through LDB_OPEN_FILE_DAT_END
OpenFileDatEnd(w, ret) ==
    [ret |-> ret, w |-> [ldb_close_files(w) EXCEPT !.obj.state = ZeroState]]

\* the exit through LDB_OPEN_FILE_DAT_ZEROIZE
OpenFileDatZeroize(w, pos) ==
    LET z == ldb_zeroize_dat(w, pos)
    IN  IF ~z.ok THEN OpenFileDatEnd(z.w, LDB_ERR_WRITE_DAT)
        ELSE [ret |-> LDB_OK, w |-> z.w]

\* the mutation of C28: a record out of order ends the scan as a record that
\* is not whole does
OpenFileDatScanned_Truncate(w, scan) ==
    IF scan.ret = LDB_ERR_FMT_DAT \/ (scan.ret = LDB_OK /\ scan.zeroize)
    THEN OpenFileDatZeroize([w EXCEPT !.obj.state = scan.state], scan.pos)
    ELSE IF scan.ret # LDB_OK
    THEN OpenFileDatEnd([w EXCEPT !.obj.state = scan.state], scan.ret)
    ELSE [ret |-> LDB_OK, w |-> [w EXCEPT !.obj.state = scan.state]]

\* the mutation of C36: the zeros found after the last record are taken for
\* a record that is not valid
OpenFileDatScanned_NoTail(w, scan) ==
    IF scan.ret # LDB_OK
    THEN OpenFileDatEnd([w EXCEPT !.obj.state = scan.state], scan.ret)
    ELSE IF scan.zeroize
    THEN OpenFileDatEnd([w EXCEPT !.obj.state = scan.state], LDB_ERR_FMT_DAT)
    ELSE [ret |-> LDB_OK, w |-> [w EXCEPT !.obj.state = scan.state]]

\* the end of ldb_open_file_dat (check = true), scan being the outcome of
\* the while loop over the records that follow the first one
OpenFileDatScanned(w, scan) ==
    IF scan.ret # LDB_OK
    THEN OpenFileDatEnd([w EXCEPT !.obj.state = scan.state], scan.ret)
    ELSE IF scan.zeroize
    THEN OpenFileDatZeroize([w EXCEPT !.obj.state = scan.state], scan.pos)
    ELSE [ret |-> LDB_OK, w |-> [w EXCEPT !.obj.state = scan.state]]

\* the mutation of C30: a first record whose checksum does not verify is
\* taken for absent
OpenFileDatRecords_Absent(w, check, first) ==
    LET bytes == w.fs.dat.bytes
        pos == sizeof_header_dat
        pos1 == pos + sizeof_record_dat + first.record.metadata_len + first.record.data_len
        w4 == [w EXCEPT !.obj.state.seqnum1 = first.record.seqnum,
                        !.obj.state.timestamp1 = first.record.timestamp]
    IN  IF pos = Len(bytes) THEN [ret |-> LDB_OK, w |-> w]
        ELSE IF pos + sizeof_record_dat > Len(bytes) THEN OpenFileDatZeroize(w, pos)
        ELSE IF first.ret \in {LDB_ERR_FMT_DAT, LDB_ERR_CHECKSUM}
        THEN OpenFileDatZeroize(w, pos)
        ELSE IF first.ret # LDB_OK THEN OpenFileDatEnd(w, first.ret)
        ELSE IF first.record.seqnum = 0 THEN OpenFileDatZeroize(w, pos)
        ELSE IF ~check THEN [ret |-> LDB_OK, w |-> w4]
        ELSE OpenFileDatScanned(w4,
                ScanDat(bytes, pos1,
                        [w4.obj.state EXCEPT !.seqnum2 = first.record.seqnum,
                                             !.timestamp2 = first.record.timestamp]))

\* the part of ldb_open_file_dat that follows the header; first is what
\* ldb_read_record_dat says of the cells at the offset of the first record
OpenFileDatRecords(w, check, first) ==
    LET bytes == w.fs.dat.bytes
        pos == sizeof_header_dat
        pos1 == pos + sizeof_record_dat + first.record.metadata_len + first.record.data_len
        w4 == [w EXCEPT !.obj.state.seqnum1 = first.record.seqnum,
                        !.obj.state.timestamp1 = first.record.timestamp]
    IN  IF pos = Len(bytes) THEN [ret |-> LDB_OK, w |-> w]
        ELSE IF pos + sizeof_record_dat > Len(bytes) THEN OpenFileDatZeroize(w, pos)
        ELSE IF first.ret = LDB_ERR_FMT_DAT THEN OpenFileDatZeroize(w, pos)
        ELSE IF first.ret # LDB_OK THEN OpenFileDatEnd(w, first.ret)
        ELSE IF first.record.seqnum = 0 THEN OpenFileDatZeroize(w, pos)
        ELSE IF ~check THEN [ret |-> LDB_OK, w |-> w4]
        ELSE OpenFileDatScanned(w4,
                ScanDat(bytes, pos1,
                        [w4.obj.state EXCEPT !.seqnum2 = first.record.seqnum,
                                             !.timestamp2 = first.record.timestamp]))

ldb_open_file_dat(w0, check) ==
    LET w1 == [w0 EXCEPT !.obj.state = ZeroState, !.obj.dat_end = sizeof_header_dat]
        w2 == [w1 EXCEPT !.obj.dat_fp = TRUE, !.obj.dat_fd = TRUE]
        header == ReadAt(w0.fs.dat.bytes, 0, sizeof_header_dat)
        w3 == [w2 EXCEPT !.obj.format = header[2],
                         !.obj.state.milestone = header[offsetof_milestone + 1]]
    IN  IF ~w0.fs.dat.exists THEN [ret |-> LDB_ERR_OPEN_DAT, w |-> w1]
        ELSE IF Len(header) # sizeof_header_dat THEN OpenFileDatEnd(w2, LDB_ERR_FMT_DAT)
        ELSE IF header[1] # LDB_MAGIC_NUMBER THEN OpenFileDatEnd(w2, LDB_ERR_FMT_DAT)
        ELSE IF header[2] # LDB_FORMAT_1 THEN OpenFileDatEnd(w2, LDB_ERR_FMT_DAT)
        ELSE OpenFileDatRecords(w3, check,
                ldb_read_record_dat(w0.fs.dat.bytes, sizeof_header_dat, TRUE))

(***************************************************************************)
(* Opening the index file.                                                 *)
(***************************************************************************)
\* the forward scan of the index records (check = true), from offset pos on
RECURSIVE ScanIdx(_, _, _, _)
ScanIdx(idx_bytes, dat_bytes, pos, record_n) ==
    IF pos + sizeof_record_idx > Len(idx_bytes)
    THEN [ret |-> LDB_OK, pos |-> pos, record_n |-> record_n]
    ELSE
    LET aux == RecordIdxOf(ReadAt(idx_bytes, pos, sizeof_record_idx))
        record_dat == ldb_read_record_dat(dat_bytes, aux.pos, TRUE)
    IN  IF aux.seqnum = 0
        THEN [ret |-> LDB_OK, pos |-> pos, record_n |-> record_n]
        ELSE IF \/ aux.seqnum # record_n.seqnum + 1
                \/ aux.timestamp < record_n.timestamp
                \/ aux.pos < record_n.pos + sizeof_record_dat
        THEN [ret |-> LDB_ERR_FMT_IDX, pos |-> pos, record_n |-> record_n]
        ELSE IF record_dat.ret # LDB_OK
        THEN [ret |-> LDB_ERR_FMT_IDX, pos |-> pos, record_n |-> record_n]
        ELSE IF \/ aux.seqnum # record_dat.record.seqnum
                \/ aux.timestamp # record_dat.record.timestamp
        THEN [ret |-> LDB_ERR_FMT_IDX, pos |-> pos, record_n |-> record_n]
        ELSE ScanIdx(idx_bytes, dat_bytes, pos + sizeof_record_idx, aux)

\* the backward walk over the all-zero slots at the end of the index (check = false)
RECURSIVE WalkBackIdx(_, _, _)
WalkBackIdx(idx_bytes, pos, record_n) ==
    IF pos <= sizeof_header_idx
    THEN [pos |-> pos, record_n |-> record_n]
    ELSE
    LET rec == RecordIdxOf(ReadAt(idx_bytes, pos - sizeof_record_idx, sizeof_record_idx))
    IN  IF rec.seqnum # 0
        THEN [pos |-> pos, record_n |-> rec]
        ELSE WalkBackIdx(idx_bytes, pos - sizeof_record_idx, rec)

\* the exit through LDB_OPEN_FILE_IDX_END
OpenFileIdxEnd(w, ret) ==
    [ret |-> ret,
     w |-> [FlushIdx(w) EXCEPT !.obj.idx_fp = FALSE, !.obj.idx_fd = FALSE,
                               !.obj.idx_error = FALSE]]

\* the loop that adds an index record for each data record found after the
\* last indexed one; AddUnflushedRecord is its body, r being what
\* ldb_read_record_dat says of the cells at offset pos
RECURSIVE AddUnflushed(_, _, _)

\* a variant that leaves the records found after the last indexed one
AddUnflushed_None(w, pos, len) == [ret |-> LDB_OK, w |-> w, pos |-> pos]

AddUnflushedRecord(w, pos, len, r) ==
    LET record_n == [seqnum |-> r.record.seqnum, timestamp |-> r.record.timestamp, pos |-> pos]
        pos1 == pos + sizeof_record_dat + r.record.metadata_len + r.record.data_len
        w1 == [w EXCEPT !.obj.state.seqnum2 = r.record.seqnum,
                        !.obj.state.timestamp2 = r.record.timestamp,
                        !.obj.dat_end = pos1]
        a == ldb_append_record_idx(w1, w1.obj.state, record_n, "none")
    IN  IF r.ret = LDB_ERR_FMT_DAT
        THEN [ret |-> LDB_OK, w |-> w, pos |-> pos]
        ELSE IF r.ret # LDB_OK
        THEN [ret |-> r.ret, w |-> w, pos |-> pos]
        ELSE IF r.record.seqnum = 0
        THEN [ret |-> LDB_OK, w |-> w, pos |-> pos]
        ELSE IF \/ r.record.seqnum # w.obj.state.seqnum2 + 1
                \/ r.record.timestamp < w.obj.state.timestamp2
        THEN [ret |-> LDB_ERR_FMT_DAT, w |-> w, pos |-> pos]
        ELSE IF a.ret # LDB_OK
        THEN [ret |-> a.ret, w |-> a.w, pos |-> pos1]
        ELSE AddUnflushed(a.w, pos1, len)

AddUnflushed(w, pos, len) ==
    IF pos + sizeof_record_dat > len
    THEN [ret |-> LDB_OK, w |-> w, pos |-> pos]
    ELSE AddUnflushedRecord(w, pos, len, ldb_read_record_dat(w.fs.dat.bytes, pos, TRUE))

\* the end of ldb_open_file_idx, u being the outcome of the loop that adds
\* the unflushed records
OpenFileIdxAdded(u) ==
    LET zd == ldb_zeroize_dat(u.w, u.pos)
    IN  IF u.ret # LDB_OK THEN OpenFileIdxEnd(u.w, u.ret)
        ELSE IF ~zd.ok THEN OpenFileIdxEnd(zd.w, LDB_ERR_WRITE_DAT)
        ELSE [ret |-> LDB_OK, w |-> zd.w]

\* the part of ldb_open_file_idx that reads the last indexed record of the data
\* file; last is what ldb_read_record_dat says of the cells at record_n.pos
OpenFileIdxLast(w, record_n, last) ==
    LET pos1 == record_n.pos + sizeof_record_dat
                + last.record.metadata_len + last.record.data_len
    IN  IF last.ret # LDB_OK THEN OpenFileIdxEnd(w, LDB_ERR_FMT_IDX)
        ELSE IF \/ last.record.seqnum # record_n.seqnum
                \/ last.record.timestamp # record_n.timestamp
        THEN OpenFileIdxEnd(w, LDB_ERR_FMT_IDX)
        ELSE OpenFileIdxAdded(AddUnflushed([w EXCEPT !.obj.dat_end = pos1], pos1,
                                           Len(w.fs.dat.bytes)))

\* the part of ldb_open_file_idx that follows the branch on record_0:
\* b is the outcome of the branch, [ret, w, record_n]
OpenFileIdxData(b) ==
    IF b.ret # LDB_OK THEN OpenFileIdxEnd(b.w, b.ret)
    ELSE IF b.w.obj.state.seqnum1 = 0
    THEN [ret |-> LDB_OK, w |-> [b.w EXCEPT !.obj.dat_end = sizeof_header_dat]]
    ELSE OpenFileIdxLast(b.w, b.record_n,
                         ldb_read_record_dat(b.w.fs.dat.bytes, b.record_n.pos, TRUE))

\* the branch of ldb_open_file_idx on record_0, w being the files and the
\* object after the index was zeroized from pos on
OpenFileIdxBranch(w, record_0, record_n, pos) ==
    LET first == [seqnum |-> w.obj.state.seqnum1,
                  timestamp |-> w.obj.state.timestamp1,
                  pos |-> sizeof_header_dat]
        wf == [w EXCEPT !.obj.state.seqnum2 = w.obj.state.seqnum1,
                        !.obj.state.timestamp2 = w.obj.state.timestamp1]
        a == ldb_append_record_idx(wf, wf.obj.state, first, "none")
        diff == record_n.seqnum - record_0.seqnum
    IN  IF record_0.seqnum = 0
        THEN IF w.obj.state.seqnum1 # 0
             THEN [ret |-> a.ret, w |-> a.w, record_n |-> first]
             ELSE [ret |-> LDB_OK, w |-> w, record_n |-> record_n]
        ELSE IF \/ record_n.seqnum < record_0.seqnum
                \/ record_n.timestamp < record_0.timestamp
        THEN [ret |-> LDB_ERR_FMT_IDX, w |-> w, record_n |-> record_n]
        ELSE IF pos # sizeof_header_idx + (diff + 1) * sizeof_record_idx
        THEN [ret |-> LDB_ERR_FMT_IDX, w |-> w, record_n |-> record_n]
        ELSE IF record_n.pos < sizeof_header_dat + diff * sizeof_record_dat
        THEN [ret |-> LDB_ERR_FMT_IDX, w |-> w, record_n |-> record_n]
        ELSE [ret |-> LDB_OK,
              w |-> [w EXCEPT !.obj.state.seqnum2 = record_n.seqnum,
                              !.obj.state.timestamp2 = record_n.timestamp],
              record_n |-> record_n]

\* the part of ldb_open_file_idx that follows the search of the last record:
\* pos is the offset just after the last record distinct than 0
OpenFileIdxTail(w, record_0, record_n, pos, fault) ==
    LET z == ldb_zeroize_idx(w, pos)
    IN  IF ~z.ok \/ fault = "write" THEN OpenFileIdxEnd(z.w, LDB_ERR_WRITE_IDX)
        ELSE OpenFileIdxData(OpenFileIdxBranch(z.w, record_0, record_n, pos))

\* fault tells the step of the index file that the file system refuses:
\* "open" the fopen, "read" the read that follows the header, "write" the
\* ldb_zeroize of the tail; "none" when it refuses nothing
ldb_open_file_idx(w0, check, fault) ==
    IF ~w0.fs.idx.exists \/ fault = "open" THEN [ret |-> LDB_ERR_OPEN_IDX, w |-> w0]
    ELSE
    LET w == [w0 EXCEPT !.obj.idx_fp = TRUE, !.obj.idx_fd = TRUE]
        bytes == w.fs.idx.bytes
        len == Len(bytes)
        header == ReadAt(bytes, 0, sizeof_header_idx)
        has_first == sizeof_header_idx + sizeof_record_idx <= len
        record_0 == IF has_first
                    THEN RecordIdxOf(ReadAt(bytes, sizeof_header_idx, sizeof_record_idx))
                    ELSE ZeroRecordIdx
        pos == IF has_first THEN sizeof_header_idx + sizeof_record_idx
               ELSE sizeof_header_idx
        scan == ScanIdx(bytes, w.fs.dat.bytes, pos, record_0)
        rem == (len - sizeof_header_idx) % sizeof_record_idx
        back == WalkBackIdx(bytes, len - rem, record_0)
    IN  IF Len(header) # sizeof_header_idx THEN OpenFileIdxEnd(w, LDB_ERR_FMT_IDX)
        ELSE IF header[1] # LDB_MAGIC_NUMBER THEN OpenFileIdxEnd(w, LDB_ERR_FMT_IDX)
        ELSE IF header[2] # LDB_FORMAT_1 THEN OpenFileIdxEnd(w, LDB_ERR_FMT_IDX)
        ELSE IF header[2] # w.obj.format THEN OpenFileIdxEnd(w, LDB_ERR_FMT_IDX)
        ELSE IF fault = "read" THEN OpenFileIdxEnd(w, LDB_ERR_READ_IDX)
        ELSE IF has_first /\ record_0.seqnum # w.obj.state.seqnum1
        THEN OpenFileIdxEnd(w, LDB_ERR_FMT_IDX)
        ELSE IF has_first /\ record_0.timestamp # w.obj.state.timestamp1
        THEN OpenFileIdxEnd(w, LDB_ERR_FMT_IDX)
        ELSE IF has_first /\ record_0.seqnum # 0 /\ record_0.pos # sizeof_header_dat
        THEN OpenFileIdxEnd(w, LDB_ERR_FMT_IDX)
        ELSE IF record_0.seqnum = 0 THEN OpenFileIdxTail(w, record_0, record_0, pos, fault)
        ELSE IF check
        THEN IF scan.ret # LDB_OK THEN OpenFileIdxEnd(w, scan.ret)
             ELSE OpenFileIdxTail(w, record_0, scan.record_n, scan.pos, fault)
        ELSE OpenFileIdxTail(w, record_0, back.record_n, back.pos, fault)

(***************************************************************************)
(* ldb_open and ldb_close.                                                 *)
(***************************************************************************)
\* remove(idx_path) followed by ldb_create_file_idx
RecreateIdx(w) ==
    ldb_create_file_idx([w EXCEPT !.fs.idx = NoFile])

\* the end of ldb_open after the index file was removed and created again,
\* r being the outcome of ldb_open_file_idx on the new file
OpenRebuilt(r) ==
    IF r.ret # LDB_OK THEN [ret |-> r.ret, w |-> ldb_free_db(r.w)]
    ELSE [ret |-> LDB_OK, w |-> r.w]

\* the part of ldb_open that follows ldb_open_file_idx, i being its outcome
\* a variant that returns the error of the index instead of rebuilding it
OpenIdx_NoRebuild(i) ==
    IF i.ret = LDB_OK THEN [ret |-> LDB_OK, w |-> i.w]
    ELSE [ret |-> i.ret, w |-> ldb_free_db(i.w)]

OpenIdx(i) ==
    LET c == RecreateIdx(i.w)
    IN  IF i.ret = LDB_OK THEN [ret |-> LDB_OK, w |-> i.w]
        ELSE IF i.ret \in {LDB_ERR_OPEN_IDX, LDB_ERR_READ_IDX, LDB_ERR_WRITE_IDX, LDB_ERR_FMT_IDX}
        THEN IF ~c.ok THEN [ret |-> LDB_ERR_OPEN_IDX, w |-> ldb_free_db(c.w)]
             ELSE OpenRebuilt(ldb_open_file_idx(c.w, TRUE, "none"))
        ELSE [ret |-> i.ret, w |-> ldb_free_db(i.w)]

\* the part of ldb_open that follows ldb_open_file_dat, d being its outcome
OpenDat(d, check, fault) ==
    IF d.ret # LDB_OK THEN [ret |-> d.ret, w |-> ldb_free_db(d.w)]
    ELSE OpenIdx(ldb_open_file_idx(d.w, check, fault))

\* fault is the step of the index file refused when it is opened first (the
\* file system refuses nothing once the index was created again)
ldb_open(w0, check, fault) ==
    LET w1 == [w0 EXCEPT !.obj = [ClosedObj EXCEPT !.dat_end = sizeof_header_dat]]
        w2 == IF ~w1.fs.dat.exists
              THEN ldb_create_file_dat([w1 EXCEPT !.fs.idx = NoFile]).w
              ELSE w1
        w3 == IF ~w2.fs.idx.exists THEN ldb_create_file_idx(w2).w ELSE w2
    IN  OpenDat(ldb_open_file_dat(w3, check), check, fault)

ldb_close(w) == [ret |-> LDB_OK, w |-> ldb_free_db(w)]

(***************************************************************************)
(* ldb_append.  millis[i] is what ldb_get_millis() returns for entry i,    *)
(* and fault[i] tells which write of entry i the file system refuses.      *)
(***************************************************************************)
\* the mutation of C5: the seqnum given to an entry is the last one
AssignSeqnum_Last(state, entry) ==
    IF entry.seqnum = 0 THEN [entry EXCEPT !.seqnum = state.seqnum2] ELSE entry

\* entries[i].seqnum = state.seqnum2 + 1 when it is 0
AssignSeqnum(state, entry) ==
    IF entry.seqnum = 0 THEN [entry EXCEPT !.seqnum = state.seqnum2 + 1] ELSE entry

\* the mutation of C6: the timestamp given to an entry is the clock
AssignTimestamp_Clock(state, entry, now) ==
    IF entry.timestamp = 0 THEN [entry EXCEPT !.timestamp = now] ELSE entry

\* entries[i].timestamp = ldb_max(ldb_get_millis(), state.timestamp2) when it is 0
AssignTimestamp(state, entry, now) ==
    IF entry.timestamp = 0
    THEN [entry EXCEPT !.timestamp = ldb_max(now, state.timestamp2)]
    ELSE entry

\* the for loop of ldb_append, from entry i on (entries are numbered from 1)
RECURSIVE AppendLoop(_, _, _, _, _, _)
\* the end of the body: a is the outcome of ldb_append_entry_dat and b the
\* outcome of ldb_append_record_idx
AppendLoopIdx(a, b, entries, i, millis, fault) ==
    IF b.ret # LDB_OK
    THEN [ret |-> b.ret, w |-> b.w, state |-> a.state, entries |-> entries, i |-> i]
    ELSE AppendLoop(b.w, a.state, entries, i + 1, millis, fault)

\* the body after ldb_append_entry_dat; pos is dat_end before it was called
AppendLoopDat(a, pos, entries, i, millis, fault) ==
    IF a.ret # LDB_OK
    THEN [ret |-> a.ret, w |-> a.w, state |-> a.state, entries |-> entries, i |-> i]
    ELSE AppendLoopIdx(a,
            ldb_append_record_idx(a.w, a.state,
                [seqnum |-> entries[i].seqnum, timestamp |-> entries[i].timestamp,
                 pos |-> pos],
                fault[i]),
            entries, i, millis, fault)

\* the body once entries[i] holds its seqnum and its timestamp
AppendLoopEntry(w, state, entries, i, millis, fault) ==
    AppendLoopDat(ldb_append_entry_dat(w, state, entries[i], fault[i]),
                  w.obj.dat_end, entries, i, millis, fault)

AppendLoop(w, state, entries, i, millis, fault) ==
    IF i > Len(entries)
    THEN [ret |-> LDB_OK, w |-> w, state |-> state, entries |-> entries, i |-> i]
    ELSE AppendLoopEntry(w, state,
            [entries EXCEPT
               ![i] = AssignTimestamp(state, AssignSeqnum(state, entries[i]), millis[i])],
            i, millis, fault)

\* the part of ldb_append that follows the for loop, l being its outcome:
\* nothing is flushed nor published when no entry was written
AppendPublish(l) ==
    IF l.i = 1
    THEN [ret |-> l.ret, num |-> 0, entries |-> l.entries, w |-> l.w]
    ELSE [ret |-> l.ret, num |-> l.i - 1, entries |-> l.entries,
          w |-> [FlushIdx(FlushDat(l.w)) EXCEPT !.obj.state = l.state]]

ldb_append(w, entries, millis, fault) ==
    IF ~ldb_is_valid_db(w.obj)
    THEN [ret |-> LDB_ERR, num |-> 0, entries |-> entries, w |-> w]
    ELSE IF Len(entries) = 0
    THEN [ret |-> LDB_OK, num |-> 0, entries |-> entries, w |-> w]
    ELSE AppendPublish(AppendLoop(w, w.obj.state, entries, 1, millis, fault))

(***************************************************************************)
(* ldb_read.                                                               *)
(***************************************************************************)
\* the for loop of ldb_read; i counts the entries read so far
RECURSIVE ReadLoop(_, _, _, _, _)
\* the body of the loop once the index record was read, e being what
\* ldb_read_entry_dat says of the cells at the offset given by the index
ReadLoopEntry(w, state, seqnum, entries, i, e) ==
    IF e.ret # LDB_OK
    THEN [ret |-> e.ret, num |-> i, entries |-> [entries EXCEPT ![i + 1] = e.entry]]
    ELSE IF e.entry.seqnum # seqnum
    THEN [ret |-> LDB_ERR, num |-> i, entries |-> [entries EXCEPT ![i + 1] = e.entry]]
    ELSE ReadLoop(w, state, seqnum + 1, [entries EXCEPT ![i + 1] = e.entry], i + 1)

ReadLoop(w, state, seqnum, entries, i) ==
    IF ~(i < Len(entries) /\ seqnum <= state.seqnum2)
    THEN [ret |-> LDB_OK, num |-> i, entries |-> entries]
    ELSE
    LET r == ldb_read_record_idx(w.fs.idx.bytes, state, seqnum)
    IN  IF r.ret # LDB_OK
        THEN [ret |-> r.ret, num |-> i, entries |-> entries]
        ELSE ReadLoopEntry(w, state, seqnum, entries, i,
                           ldb_read_entry_dat(w.fs.dat.bytes, r.record.pos))

ldb_read(w, seqnum, len) ==
    LET entries == [i \in 1..len |-> ZeroEntry]
        state == w.obj.state
    IN  IF ~ldb_is_valid_db(w.obj)
        THEN [ret |-> LDB_ERR, num |-> 0, entries |-> entries]
        ELSE IF seqnum = 0 \/ seqnum < state.seqnum1 \/ seqnum > state.seqnum2
        THEN [ret |-> LDB_ERR_NOT_FOUND, num |-> 0, entries |-> entries]
        ELSE ReadLoop(w, state, seqnum, entries, 0)

(***************************************************************************)
(* ldb_stats.                                                              *)
(***************************************************************************)
ldb_clamp(val, lo, hi) == IF val < lo THEN lo ELSE IF hi < val THEN hi ELSE val

\* the ldb_stats_t after memset
ZeroStats ==
    [min_seqnum |-> 0, max_seqnum |-> 0, min_timestamp |-> 0, max_timestamp |-> 0,
     num_entries |-> 0, data_size |-> 0, index_size |-> 0]

\* the end of ldb_stats: record1 and record2 are the index records of
\* seqnum1 and seqnum2 (clamped), d what ldb_read_record_dat says of the
\* cells at record2.pos
StatsOf(seqnum1, seqnum2, record1, record2, d) ==
    IF record2.pos < record1.pos + (record2.seqnum - record1.seqnum) * sizeof_record_dat
    THEN [ret |-> LDB_ERR, stats |-> ZeroStats]
    ELSE IF d.ret # LDB_OK
    THEN [ret |-> d.ret, stats |-> ZeroStats]
    ELSE IF d.record.seqnum # seqnum2
    THEN [ret |-> LDB_ERR, stats |-> ZeroStats]
    ELSE [ret |-> LDB_OK,
          stats |-> [min_seqnum |-> record1.seqnum,
                     min_timestamp |-> record1.timestamp,
                     max_seqnum |-> record2.seqnum,
                     max_timestamp |-> record2.timestamp,
                     num_entries |-> seqnum2 - seqnum1 + 1,
                     index_size |-> sizeof_record_idx * (seqnum2 - seqnum1 + 1),
                     data_size |-> record2.pos - record1.pos + sizeof_record_dat +
                                   d.record.metadata_len + d.record.data_len]]

\* the part of ldb_stats that reads the files, seqnum1 and seqnum2 clamped
StatsRead(w, state, seqnum1, seqnum2) ==
    LET r1 == ldb_read_record_idx(w.fs.idx.bytes, state, seqnum1)
        r2 == ldb_read_record_idx(w.fs.idx.bytes, state, seqnum2)
    IN  IF r1.ret # LDB_OK THEN [ret |-> r1.ret, stats |-> ZeroStats]
        ELSE IF r2.ret # LDB_OK THEN [ret |-> r2.ret, stats |-> ZeroStats]
        ELSE StatsOf(seqnum1, seqnum2, r1.record, r2.record,
                     ldb_read_record_dat(w.fs.dat.bytes, r2.record.pos, FALSE))

\* stats is the struct of the caller, which the function leaves as it is
\* when it rejects the arguments
ldb_stats(w, seqnum1, seqnum2, stats) ==
    LET state == w.obj.state
    IN  IF seqnum2 < seqnum1 THEN [ret |-> LDB_ERR_ARG, stats |-> stats]
        ELSE IF ~ldb_is_valid_db(w.obj) THEN [ret |-> LDB_ERR, stats |-> ZeroStats]
        ELSE IF state.seqnum1 = 0 \/ seqnum2 < state.seqnum1 \/ state.seqnum2 < seqnum1
        THEN [ret |-> LDB_OK, stats |-> ZeroStats]
        ELSE StatsRead(w, state, ldb_clamp(seqnum1, state.seqnum1, state.seqnum2),
                                 ldb_clamp(seqnum2, state.seqnum1, state.seqnum2))

(***************************************************************************)
(* ldb_update_milestone.                                                   *)
(***************************************************************************)
\* fseek and fwrite on dat_fp: the value stays in the buffer of the stream
ldb_update_milestone(w, seqnum) ==
    IF ~ldb_is_valid_db(w.obj) THEN [ret |-> LDB_ERR, w |-> w]
    ELSE [ret |-> LDB_OK,
          w |-> [FwriteDat(w, offsetof_milestone, << seqnum >>) EXCEPT
                   !.obj.state.milestone = seqnum]]

(***************************************************************************)
(* ldb_search_by_ts.                                                       *)
(***************************************************************************)
\* the mutation of C16: equal timestamps are always taken as in mode lower
SearchNext_Lower(mode, timestamp, b, sn, ts) ==
    IF ts < timestamp
    THEN [b EXCEPT !.sn1 = sn, !.ts1 = ts]
    ELSE [b EXCEPT !.sn2 = sn, !.ts2 = ts]

\* the mutation of C33: equal timestamps are always taken as in mode upper
SearchNext_Upper(mode, timestamp, b, sn, ts) ==
    IF ts < timestamp
    THEN [b EXCEPT !.sn1 = sn, !.ts1 = ts]
    ELSE IF timestamp < ts
    THEN [b EXCEPT !.sn2 = sn, !.ts2 = ts]
    ELSE [b EXCEPT !.sn1 = sn, !.ts1 = ts]

\* one turn of the loop: b holds sn1, sn2, ts1, ts2; ts is the timestamp of
\* the record sn
SearchNext(mode, timestamp, b, sn, ts) ==
    IF ts < timestamp
    THEN [b EXCEPT !.sn1 = sn, !.ts1 = ts]
    ELSE IF timestamp < ts \/ mode = LDB_SEARCH_LOWER
    THEN [b EXCEPT !.sn2 = sn, !.ts2 = ts]
    ELSE [b EXCEPT !.sn1 = sn, !.ts1 = ts]

RECURSIVE SearchLoop(_, _, _, _, _)
SearchLoop(w, state, timestamp, mode, b) ==
    IF ~(b.sn1 + 1 < b.sn2 /\ b.ts1 # b.ts2)
    THEN [ret |-> LDB_OK, seqnum |-> b.sn2]
    ELSE
    LET sn == (b.sn1 + b.sn2) \div 2
        r == ldb_read_record_idx(w.fs.idx.bytes, state, sn)
    IN  IF r.ret # LDB_OK
        THEN [ret |-> r.ret, seqnum |-> 0]
        ELSE SearchLoop(w, state, timestamp, mode,
                        SearchNext(mode, timestamp, b, sn, r.record.timestamp))

\* the values of sn1, sn2, ts1, ts2 at each test of the condition of the
\* loop, in order, and the value of ret when the loop is left
RECURSIVE SearchTrace(_, _, _, _, _)
SearchTrace(w, state, timestamp, mode, b) ==
    IF ~(b.sn1 + 1 < b.sn2 /\ b.ts1 # b.ts2)
    THEN [ret |-> LDB_OK, brackets |-> << b >>]
    ELSE
    LET sn == (b.sn1 + b.sn2) \div 2
        r == ldb_read_record_idx(w.fs.idx.bytes, state, sn)
    IN  IF r.ret # LDB_OK
        THEN [ret |-> r.ret, brackets |-> << b >>]
        ELSE LET t == SearchTrace(w, state, timestamp, mode,
                                  SearchNext(mode, timestamp, b, sn, r.record.timestamp))
             IN  [t EXCEPT !.brackets = << b >> \o @]

\* sn1, sn2, ts1, ts2 when the loop is entered
SearchStart(state) ==
    [sn1 |-> state.seqnum1, sn2 |-> state.seqnum2,
     ts1 |-> state.timestamp1, ts2 |-> state.timestamp2]

\* none of the exits that precede the loop is taken
SearchEnters(state, timestamp, mode) ==
    /\ state.seqnum1 # 0
    /\ ~(mode = LDB_SEARCH_LOWER /\ state.timestamp2 < timestamp)
    /\ ~(mode = LDB_SEARCH_UPPER /\ state.timestamp2 <= timestamp)
    /\ ~(mode = LDB_SEARCH_LOWER /\ timestamp <= state.timestamp1)
    /\ ~(mode = LDB_SEARCH_UPPER /\ timestamp < state.timestamp1)

ldb_search_by_ts(w, timestamp, mode) ==
    LET state == w.obj.state
    IN  IF ~ldb_is_valid_db(w.obj)
        THEN [ret |-> LDB_ERR, seqnum |-> 0]
        ELSE IF state.seqnum1 = 0
        THEN [ret |-> LDB_ERR_NOT_FOUND, seqnum |-> 0]
        ELSE IF mode = LDB_SEARCH_LOWER /\ state.timestamp2 < timestamp
        THEN [ret |-> LDB_ERR_NOT_FOUND, seqnum |-> 0]
        ELSE IF mode = LDB_SEARCH_UPPER /\ state.timestamp2 <= timestamp
        THEN [ret |-> LDB_ERR_NOT_FOUND, seqnum |-> 0]
        ELSE IF mode = LDB_SEARCH_LOWER /\ timestamp <= state.timestamp1
        THEN [ret |-> LDB_OK, seqnum |-> state.seqnum1]
        ELSE IF mode = LDB_SEARCH_UPPER /\ timestamp < state.timestamp1
        THEN [ret |-> LDB_OK, seqnum |-> state.seqnum1]
        ELSE SearchLoop(w, state, timestamp, mode,
                        [sn1 |-> state.seqnum1, sn2 |-> state.seqnum2,
                         ts1 |-> state.timestamp1, ts2 |-> state.timestamp2])

(***************************************************************************)
(* ldb_rollback.                                                           *)
(***************************************************************************)
\* the loop that sets the index entries to 0, from csn down
RECURSIVE ZeroIdxLoop(_, _, _)
ZeroIdxLoop(w, seqnum, csn) ==
    IF ~(seqnum < csn /\ w.obj.state.seqnum1 <= csn) THEN w
    ELSE ZeroIdxLoop(FwriteIdx(w, ldb_get_pos_idx(w.obj.state, csn),
                               RecordIdxCells(ZeroRecordIdx)),
                     seqnum, csn - 1)

\* the mutation of C35: the timestamp of the last entry is left as it was
ldb_rollback_KeepTimestamp(w, seqnum) ==
    LET state == w.obj.state
        removed_entries == state.seqnum2 - ldb_max(seqnum, state.seqnum1 - 1)
        r1 == ldb_read_record_idx(w.fs.idx.bytes, state, seqnum)
        r2 == ldb_read_record_idx(w.fs.idx.bytes, state, seqnum + 1)
        dat_end_new == IF seqnum >= state.seqnum1 THEN r2.record.pos ELSE sizeof_header_dat
        w1 == FlushIdx(ZeroIdxLoop(w, seqnum, state.seqnum2))
        w2 == IF seqnum < state.seqnum1
              THEN [w1 EXCEPT !.obj.state.seqnum1 = 0, !.obj.state.timestamp1 = 0,
                              !.obj.state.seqnum2 = 0, !.obj.state.timestamp2 = 0,
                              !.obj.dat_end = sizeof_header_dat]
              ELSE [w1 EXCEPT !.obj.state.seqnum2 = seqnum,
                              !.obj.state.timestamp2 = state.timestamp2,
                              !.obj.dat_end = dat_end_new]
        z == ldb_zeroize_dat(w2, dat_end_new)
    IN  IF ~ldb_is_valid_db(w.obj) THEN [ret |-> LDB_ERR, w |-> w]
        ELSE IF state.seqnum2 <= seqnum THEN [ret |-> 0, w |-> w]
        ELSE IF seqnum >= state.seqnum1 /\ r1.ret # LDB_OK THEN [ret |-> r1.ret, w |-> w]
        ELSE IF seqnum >= state.seqnum1 /\ r2.ret # LDB_OK THEN [ret |-> r2.ret, w |-> w]
        ELSE IF ~z.ok THEN [ret |-> LDB_ERR_WRITE_DAT, w |-> z.w]
        ELSE [ret |-> removed_entries, w |-> FlushDat(z.w)]

ldb_rollback(w, seqnum) ==
    LET state == w.obj.state
        removed_entries == state.seqnum2 - ldb_max(seqnum, state.seqnum1 - 1)
        r1 == ldb_read_record_idx(w.fs.idx.bytes, state, seqnum)
        r2 == ldb_read_record_idx(w.fs.idx.bytes, state, seqnum + 1)
        dat_end_new == IF seqnum >= state.seqnum1 THEN r2.record.pos ELSE sizeof_header_dat
        w1 == FlushIdx(ZeroIdxLoop(w, seqnum, state.seqnum2))
        w2 == IF seqnum < state.seqnum1
              THEN [w1 EXCEPT !.obj.state.seqnum1 = 0, !.obj.state.timestamp1 = 0,
                              !.obj.state.seqnum2 = 0, !.obj.state.timestamp2 = 0,
                              !.obj.dat_end = sizeof_header_dat]
              ELSE [w1 EXCEPT !.obj.state.seqnum2 = seqnum,
                              !.obj.state.timestamp2 = r1.record.timestamp,
                              !.obj.dat_end = dat_end_new]
        z == ldb_zeroize_dat(w2, dat_end_new)
    IN  IF ~ldb_is_valid_db(w.obj) THEN [ret |-> LDB_ERR, w |-> w]
        ELSE IF state.seqnum2 <= seqnum THEN [ret |-> 0, w |-> w]
        ELSE IF seqnum >= state.seqnum1 /\ r1.ret # LDB_OK THEN [ret |-> r1.ret, w |-> w]
        ELSE IF seqnum >= state.seqnum1 /\ r2.ret # LDB_OK THEN [ret |-> r2.ret, w |-> w]
        ELSE IF ~z.ok THEN [ret |-> LDB_ERR_WRITE_DAT, w |-> z.w]
        ELSE [ret |-> removed_entries, w |-> FlushDat(z.w)]

(***************************************************************************)
(* ldb_purge.                                                              *)
(***************************************************************************)
\* the mutation of C31: the error is returned with the files left open
PurgeEnd_Open(w, ret) == [ret |-> ret, w |-> w]

\* the exit through LDB_PURGE_END
PurgeEnd(w, ret) ==
    [ret |-> ret, w |-> [ldb_close_files(w) EXCEPT !.obj.state = ZeroState]]

\* the mutation of C19: LDB_OK is returned in place of the count
PurgeReopened_Ok(i, removed_entries) ==
    IF i.ret # LDB_OK THEN PurgeEnd(i.w, i.ret)
    ELSE [ret |-> LDB_OK, w |-> i.w]

\* the end of ldb_purge, i being the outcome of ldb_open_file_idx
PurgeReopened(i, removed_entries) ==
    IF i.ret # LDB_OK THEN PurgeEnd(i.w, i.ret)
    ELSE [ret |-> removed_entries, w |-> i.w]

\* the part that follows ldb_open_file_dat, d being its outcome
PurgeReopenIdx(d, removed_entries) ==
    IF d.ret # LDB_OK THEN PurgeEnd(d.w, d.ret)
    ELSE PurgeReopened(ldb_open_file_idx(d.w, FALSE, "none"), removed_entries)

\* the mutation of C18: the files are not opened again
PurgeReopen_Closed(w, removed_entries) == [ret |-> removed_entries, w |-> w]

\* ldb_open_file_dat and ldb_open_file_idx as run at the end of ldb_purge
PurgeReopen(w, removed_entries) ==
    PurgeReopenIdx(ldb_open_file_dat(w, FALSE), removed_entries)

ldb_purge(w, seqnum) ==
    LET state == w.obj.state
        \* case purge all entries
        wa == [ldb_close_files(w) EXCEPT !.obj.state = ZeroState,
                                         !.fs.dat = NoFile, !.fs.idx = NoFile]
        ca == ldb_create_file_dat(wa)
        cb == ldb_create_file_idx(ca.w)
        \* case purge some entries
        r == ldb_read_record_idx(w.fs.idx.bytes, state, seqnum)
        pos == r.record.pos
        record_dat == ldb_read_record_dat(w.fs.dat.bytes, pos, TRUE)
        \* ldb_copy_file reads through dat_fp, whose buffer it flushes
        wc == FlushDat(w)
        len1 == Len(wc.fs.dat.bytes)
        copy_ok == ~(pos > w.obj.dat_end \/ w.obj.dat_end > len1)
        tmp_bytes == HeaderDatCells(0) \o ReadAt(wc.fs.dat.bytes, pos, w.obj.dat_end - pos)
        wt == [wc EXCEPT !.fs.tmp = [exists |-> TRUE, bytes |-> tmp_bytes]]
        wd == [ldb_close_files(wt) EXCEPT !.obj.state = ZeroState]
        \* remove(idx_path); rename(tmp_path, dat_path)
        wr == [wd EXCEPT !.fs.idx = NoFile, !.fs.dat = wd.fs.tmp, !.fs.tmp = NoFile]
        ci == ldb_create_file_idx(wr)
    IN  IF ~ldb_is_valid_db(w.obj) THEN PurgeEnd(w, LDB_ERR)
        ELSE IF seqnum <= state.seqnum1 \/ state.seqnum1 = 0 THEN [ret |-> 0, w |-> w]
        ELSE IF state.seqnum2 < seqnum
        THEN IF ~ca.ok THEN PurgeEnd(ca.w, LDB_ERR_OPEN_DAT)
             ELSE IF ~cb.ok THEN PurgeEnd(cb.w, LDB_ERR_OPEN_IDX)
             ELSE PurgeReopen(cb.w, state.seqnum2 - state.seqnum1 + 1)
        ELSE IF r.ret # LDB_OK THEN PurgeEnd(w, r.ret)
        ELSE IF record_dat.ret # LDB_OK THEN PurgeEnd(w, record_dat.ret)
        ELSE IF record_dat.record.seqnum # seqnum THEN PurgeEnd(w, LDB_ERR_FMT_IDX)
        ELSE IF ~copy_ok
        THEN PurgeEnd([wc EXCEPT !.fs.tmp = [exists |-> TRUE, bytes |-> HeaderDatCells(0)]],
                      LDB_ERR_TMP_FILE)
        ELSE IF ~ci.ok THEN PurgeEnd(ci.w, LDB_ERR_OPEN_IDX)
        ELSE PurgeReopen(ci.w, seqnum - state.seqnum1)

(***************************************************************************)
(* The state machine.                                                      *)
(*   fs   the files of the directory (dat, idx and the tmp file of purge)  *)
(*   obj  the ldb_db_t object of the caller                                *)
(*   res  the last call: its name, its argument, its return code and the   *)
(*        value of its num out-parameter                                   *)
(*   log  history variable: the entries reported as appended and not       *)
(*        removed since by a rollback or a purge, by seqnum                *)
(*   before  history variable of the recovery: the files that the last     *)
(*        ldb_open of a killed process found, and its arguments            *)
(*   trim  history variable of the recovery: the ldb_rollback or ldb_purge *)
(*        during which the process was killed, and the state it started in *)
(*   th   the threads: the owners of mutex_files and of mutex_data, and    *)
(*        the position and the local variables of the thread that writes   *)
(*        and of the threads that read                                     *)
(***************************************************************************)
VARIABLES fs, obj, res, log, before, trim, th

vars == << fs, obj, res, log, before, trim, th >>

\* the files and the object as one value, as the operators above take them
W == [fs |-> fs, obj |-> obj]

Seqnums == 0..MaxSeqnum

Timestamps == 0..MaxTimestamp

\* what ldb_get_millis() may return
Millis == 1..MaxTimestamp

\* the memory of an entry: lengths and pointers
Payloads ==
    { [metadata_len |-> 0, data_len |-> 0, metadata |-> NULL, data |-> NULL],
      [metadata_len |-> 1, data_len |-> 0, metadata |-> << 1 >>, data |-> NULL],
      [metadata_len |-> 0, data_len |-> 1, metadata |-> NULL, data |-> << 2 >>],
      [metadata_len |-> 1, data_len |-> 1, metadata |-> << 1 >>, data |-> << 2 >>],
      [metadata_len |-> 1, data_len |-> 0, metadata |-> NULL, data |-> NULL],
      [metadata_len |-> 0, data_len |-> 1, metadata |-> NULL, data |-> NULL] }

DefaultPayload == [metadata_len |-> 1, data_len |-> 1, metadata |-> << 1 >>, data |-> << 2 >>]

EmptyPayload == [metadata_len |-> 0, data_len |-> 0, metadata |-> NULL, data |-> NULL]

MkEntry(seqnum, timestamp, p) ==
    [seqnum |-> seqnum, timestamp |-> timestamp,
     metadata_len |-> p.metadata_len, data_len |-> p.data_len,
     metadata |-> p.metadata, data |-> p.data]

AutoEntry == MkEntry(0, 0, DefaultPayload)

NoFault(n) == [i \in 1..n |-> "none"]

OneFault(n, k, f) == [i \in 1..n |-> IF i = k THEN f ELSE "none"]

MkCall(entries, millis, fault) == [entries |-> entries, millis |-> millis, fault |-> fault]

\* the entries of the batches: without seqnum and timestamp, with a timestamp
\* only, with a seqnum only
BatchEntries ==
    { AutoEntry, MkEntry(0, 1, DefaultPayload), MkEntry(2, 0, DefaultPayload) }

\* The calls of ldb_append that the state machine makes: one entry with every
\* seqnum and timestamp (the clock matters only to an entry without timestamp),
\* one entry whose pointers are missing, and batches of each kind: accepted, and
\* refused at each entry.  A batch leaves the files as its entries appended one
\* by one do.
AppendCalls ==
    { MkCall(<< MkEntry(s, t, DefaultPayload) >>, << m >>, NoFault(1)) :
        s \in Seqnums, t \in Timestamps, m \in Millis }
    \cup { MkCall(<< MkEntry(0, 0, p) >>, << 1 >>, NoFault(1)) :
            p \in { q \in Payloads : q.metadata_len + q.data_len = 1 /\ q.metadata = NULL /\ q.data = NULL } }
    \cup UNION { { MkCall(es, [i \in 1..n |-> m], NoFault(n)) :
                    es \in [1..n -> BatchEntries],
                    m \in Millis } : n \in 2..MaxBatch }

\* The calls of ldb_append in which the file system refuses one write.
FaultCalls ==
    UNION { { MkCall([i \in 1..n |-> AutoEntry], [i \in 1..n |-> m], OneFault(n, k, f)) :
                m \in Millis, k \in 1..n, f \in {"dat", "idx"} } : n \in 1..MaxBatch }

\* the modes of ldb_search_by_ts
SearchModes == { LDB_SEARCH_LOWER, LDB_SEARCH_UPPER }

NoCall == [op |-> "none", ret |-> LDB_OK, num |-> 0]

\* the threads that read
Readers == {"r1", "r2"}

\* a thread that reads, outside of any call
IdleReader == [pc |-> "idle", seqnum |-> 0, state |-> ZeroState, pub |-> "none", ret |-> LDB_OK]

\* the thread that writes, outside of any call
IdleWriter ==
    [pc |-> "idle", op |-> "none", seqnum |-> 0, in |-> << >>, state |-> ZeroState,
     ret |-> LDB_OK, num |-> 0, plan |-> << >>]

\* both mutexes free, every thread outside of any call; pub is the function
\* that assigned obj->state last
NoThreads ==
    [files |-> "none", data |-> "none", pub |-> "none",
     writer |-> IdleWriter, reader |-> [r \in Readers |-> IdleReader]]

\* no ldb_rollback nor ldb_purge was interrupted
NoTrim == [op |-> "none", seqnum |-> 0, stop |-> "none", state |-> ZeroState]

\* no process was killed
NoBefore == [dat |-> NoFile, idx |-> NoFile, killed |-> FALSE, check |-> FALSE, fault |-> "none"]

\* the seqnums and timestamps stay within the bounds of the model
WithinBounds(w) ==
    /\ w.obj.state.seqnum2 <= MaxSeqnum
    /\ w.obj.state.timestamp2 <= MaxTimestamp

\* the entries of r reported as written, by seqnum
Appended(r) ==
    [s \in { r.entries[i].seqnum : i \in 1..r.num } |->
        LET i == CHOOSE i \in 1..r.num : r.entries[i].seqnum = s IN r.entries[i]]

Init ==
    /\ fs = [dat |-> NoFile, idx |-> NoFile, tmp |-> NoFile]
    /\ obj = ClosedObj
    /\ res = NoCall
    /\ log = << >>
    /\ before = NoBefore
    /\ trim = NoTrim
    /\ th = NoThreads

\* the variables after a call of ldb_open or ldb_close that returned r
Returned(op, r) ==
    /\ fs' = r.w.fs
    /\ obj' = r.w.obj
    /\ res' = [op |-> op, ret |-> r.ret, num |-> 0]
    /\ UNCHANGED log

CallOpen(check) ==
    /\ ~obj.dat_fp
    /\ Returned("open", ldb_open(W, check, "none"))
    /\ UNCHANGED << before, trim, th >>

CallClose ==
    /\ obj.dat_fp
    /\ Returned("close", ldb_close(W))
    /\ UNCHANGED << before, trim, th >>

\* the variables after a call of ldb_append that returned r and wrote the
\* entries a (by seqnum)
AppendReturned(r, a) ==
    /\ WithinBounds(r.w)
    /\ fs' = r.w.fs
    /\ obj' = r.w.obj
    /\ res' = [op |-> "append", ret |-> r.ret, num |-> r.num]
    /\ log' = [s \in DOMAIN log \cup DOMAIN a |-> IF s \in DOMAIN a THEN a[s] ELSE log[s]]

AppendDone(r) == AppendReturned(r, Appended(r))

CallAppend(in) ==
    /\ ldb_is_valid_db(obj)
    /\ AppendDone(ldb_append(W, in.entries, in.millis, in.fault))
    /\ UNCHANGED << before, trim, th >>

ReadReturned(r) ==
    /\ res' = [op |-> "read", ret |-> r.ret, num |-> r.num]
    /\ UNCHANGED << fs, obj, log >>

CallRead(seqnum, len) ==
    /\ ldb_is_valid_db(obj)
    /\ ReadReturned(ldb_read(W, seqnum, len))
    /\ UNCHANGED << before, trim, th >>

\* the variables after a call of ldb_stats that returned r; num is the
\* number of entries of the statistics
StatsReturned(r) ==
    /\ res' = [op |-> "stats", ret |-> r.ret, num |-> r.stats.num_entries]
    /\ UNCHANGED << fs, obj, log >>

\* the struct given to ldb_stats holds what the caller left in it
UninitStats == {ZeroStats, [ZeroStats EXCEPT !.num_entries = 1]}

CallStats(seqnum1, seqnum2, stats) ==
    /\ ldb_is_valid_db(obj)
    /\ StatsReturned(ldb_stats(W, seqnum1, seqnum2, stats))
    /\ UNCHANGED << before, trim, th >>

\* the variables after a call of ldb_search_by_ts that returned r; num is the
\* seqnum found
SearchReturned(r) ==
    /\ res' = [op |-> "search", ret |-> r.ret, num |-> r.seqnum]
    /\ UNCHANGED << fs, obj, log >>

CallSearch(timestamp, mode) ==
    /\ ldb_is_valid_db(obj)
    /\ SearchReturned(ldb_search_by_ts(W, timestamp, mode))
    /\ UNCHANGED << before, trim, th >>

\* the variables after a call of ldb_rollback or ldb_purge that returned r
\* and left the entries kept
Removed(op, r, kept) ==
    /\ fs' = r.w.fs
    /\ obj' = r.w.obj
    /\ res' = [op |-> op, ret |-> r.ret, num |-> 0]
    /\ log' = IF r.ret >= 0 THEN [s \in kept |-> log[s]] ELSE log

CallRollback(seqnum) ==
    /\ ldb_is_valid_db(obj)
    /\ Removed("rollback", ldb_rollback(W, seqnum), { x \in DOMAIN log : x <= seqnum })
    /\ UNCHANGED << before, trim, th >>

CallPurge(seqnum) ==
    /\ ldb_is_valid_db(obj)
    /\ Removed("purge", ldb_purge(W, seqnum), { x \in DOMAIN log : x >= seqnum })
    /\ UNCHANGED << before, trim, th >>

Next ==
    \/ \E check \in BOOLEAN : CallOpen(check)
    \/ CallClose
    \/ \E in \in AppendCalls : CallAppend(in)
    \/ \E seqnum \in 0..MaxSeqnum + 1, len \in 1..2 : CallRead(seqnum, len)
    \/ \E seqnum \in 0..MaxSeqnum + 1 : CallRollback(seqnum)
    \/ \E seqnum \in 0..MaxSeqnum + 1 : CallPurge(seqnum)
    \/ \E timestamp \in 0..MaxTimestamp + 1, mode \in SearchModes : CallSearch(timestamp, mode)

Spec == Init /\ [][Next]_vars

\* the calls of Spec that change the database, and ldb_stats
NextStats ==
    \/ \E check \in BOOLEAN : CallOpen(check)
    \/ CallClose
    \/ \E in \in AppendCalls : CallAppend(in)
    \/ \E seqnum \in 0..MaxSeqnum + 1 : CallRollback(seqnum)
    \/ \E seqnum \in 0..MaxSeqnum + 1 : CallPurge(seqnum)
    \/ \E seqnum1 \in 0..MaxSeqnum + 1, seqnum2 \in 0..MaxSeqnum + 1, stats \in UninitStats :
          CallStats(seqnum1, seqnum2, stats)

SpecStats == Init /\ [][NextStats]_vars

(***************************************************************************)
(* The state machine of a crash.  A process opens the database of an empty *)
(* directory and appends entries; it is killed, which leaves a prefix of   *)
(* each file (what the operating system had written), or the index is      *)
(* damaged; the database is opened again, and one more entry is appended.  *)
(***************************************************************************)
\* the step of the index file that the file system refuses to ldb_open
IdxFaults == {"none", "open", "read", "write"}

\* the calls of ldb_append of the process: one entry without seqnum nor timestamp
CrashCalls == { MkCall(<< AutoEntry >>, << m >>, NoFault(1)) : m \in Millis }

\* what is left of a file of which only the first n cells were written
Truncated(file, n) == [file EXCEPT !.bytes = SubSeq(@, 1, n)]

\* the index files that a kill may leave: none, or any prefix of the index
TruncatedIdx(file) ==
    { NoFile } \cup { Truncated(file, k) : k \in 0..Len(file.bytes) }

\* the index files with one wrong cell: the cell holds 0, or its value plus 1
CorruptedIdx(file) ==
    UNION { { [file EXCEPT !.bytes[c] = 0], [file EXCEPT !.bytes[c] = @ + 1] } :
              c \in 1..Len(file.bytes) } \ { file }

\* the process is killed (once): the object is lost with its stream buffers;
\* num is the number of cells of the data file that are lost
Killed(dat, idx) ==
    /\ ldb_is_valid_db(obj)
    /\ ~before.killed
    /\ fs' = [fs EXCEPT !.dat = dat, !.idx = idx]
    /\ obj' = ClosedObj
    /\ res' = [op |-> "kill", ret |-> LDB_OK, num |-> Len(fs.dat.bytes) - Len(dat.bytes)]
    /\ UNCHANGED << log, before, trim, th >>

\* the kill leaves the first n cells of the data file, and the index idx
KillTruncate(n, idx) == Killed(Truncated(fs.dat, n), idx)

\* the kill leaves the data file whole, and the index idx
KillCorrupt(idx) == Killed(fs.dat, idx)

\* ldb_open on the files found: those of an empty directory, or those of a kill
Recovered(check, fault) ==
    /\ ~obj.dat_fp
    /\ Returned("open", ldb_open(W, check, fault))
    /\ before' = [dat |-> fs.dat, idx |-> fs.idx, killed |-> res.op = "kill",
                  check |-> check, fault |-> fault]
    /\ UNCHANGED << trim, th >>

Recover(check) == Recovered(check, "none")

\* ldb_open on a whole data file, the file system refusing one step of the index
RecoverFault(check, fault) ==
    /\ res.op = "kill"
    /\ res.num = 0
    /\ Recovered(check, fault)

\* ldb_append by the first process, and once by the one that recovered
CrashAppend(in) ==
    /\ before.killed => res.op = "open"
    /\ CallAppend(in)

NextCrash ==
    \/ \E check \in BOOLEAN : Recover(check)
    \/ \E check \in BOOLEAN, fault \in IdxFaults \ {"none"} : RecoverFault(check, fault)
    \/ \E in \in CrashCalls : CrashAppend(in)
    \/ \E n \in 0..Len(fs.dat.bytes), idx \in TruncatedIdx(fs.idx) : KillTruncate(n, idx)
    \/ \E idx \in CorruptedIdx(fs.idx) : KillCorrupt(idx)

SpecCrash == Init /\ [][NextCrash]_vars

\* the values given to ldb_update_milestone
Milestones == 0..MaxMilestone

\* num is the value given
CallUpdateMilestone(seqnum) ==
    /\ ldb_is_valid_db(obj)
    /\ Returned("milestone", ldb_update_milestone(W, seqnum))
    /\ UNCHANGED << before, trim, th >>

\* the calls of Spec that change the database, one entry appended at a time,
\* and ldb_update_milestone
NextMilestone ==
    \/ \E check \in BOOLEAN : CallOpen(check)
    \/ CallClose
    \/ \E in \in CrashCalls : CallAppend(in)
    \/ \E seqnum \in 0..MaxSeqnum + 1 : CallRollback(seqnum)
    \/ \E seqnum \in 0..MaxSeqnum + 1 : CallPurge(seqnum)
    \/ \E seqnum \in Milestones : CallUpdateMilestone(seqnum)

SpecMilestone == Init /\ [][NextMilestone]_vars

(***************************************************************************)
(* The state machine of a damaged data file.  The database of an empty     *)
(* directory is opened and closed; another program writes records at the   *)
(* end of the data file, whole or damaged; the database is opened again.   *)
(* log holds the records written, in the order of the file.                *)
(***************************************************************************)
\* what a record written may lack: nothing, the checksum of its content, the
\* last cell of its payload
Damages == {"none", "checksum", "short"}

\* the cells written for an entry
DamagedCells(entry, damage) ==
    IF damage = "checksum"
    THEN [EntryCells(entry) EXCEPT ![sizeof_record_dat] = (@ + 999) % CrcModulus]
    ELSE IF damage = "short"
    THEN SubSeq(EntryCells(entry), 1, Len(EntryCells(entry)) - 1)
    ELSE EntryCells(entry)

\* the timestamps of the records written: a lower one and a higher one
WrittenTimestamps == {1, 2}

WrittenRecords ==
    { [entry |-> MkEntry(s, t, DefaultPayload), damage |-> d] :
        s \in 1..MaxSeqnum, t \in WrittenTimestamps, d \in Damages }

\* the data file that holds the records l after its header
RECURSIVE WrittenDat(_)
WrittenDat(l) ==
    IF l = << >> THEN HeaderDatCells(0)
    ELSE WrittenDat(SubSeq(l, 1, Len(l) - 1))
         \o DamagedCells(l[Len(l)].entry, l[Len(l)].damage)

\* a record is written at the end of the data file of a closed database, as
\* long as no ldb_open has changed the file
WriteRecord(rec) ==
    /\ ~obj.dat_fp
    /\ fs.dat.exists
    /\ Len(log) < MaxWritten
    /\ fs.dat.bytes = WrittenDat(log)
    /\ fs' = [fs EXCEPT !.dat.bytes = @ \o DamagedCells(rec.entry, rec.damage)]
    /\ log' = Append(log, rec)
    /\ res' = [op |-> "write", ret |-> LDB_OK, num |-> Len(log) + 1]
    /\ UNCHANGED << obj, before, trim, th >>

NextDamaged ==
    \/ \E check \in BOOLEAN : Recover(check)
    \/ CallClose
    \/ \E rec \in WrittenRecords : WriteRecord(rec)

SpecDamaged == Init /\ [][NextDamaged]_vars

(***************************************************************************)
(* The state machine of a closed handle.  The calls of the library are     *)
(* made on an object whose files are not open: never opened, closed, or    *)
(* left by a ldb_open or a ldb_purge that failed.  before holds the files  *)
(* found by the call.                                                      *)
(***************************************************************************)
\* the checksum of the first record of the data file of a closed database is
\* changed by another program: the next ldb_open fails
DamageFirst ==
    /\ ~obj.dat_fp
    /\ res.op = "close"
    /\ Len(fs.dat.bytes) >= sizeof_header_dat + sizeof_record_dat
    /\ fs' = [fs EXCEPT !.dat.bytes[sizeof_header_dat + sizeof_record_dat] =
                            (@ + 999) % CrcModulus]
    /\ res' = [op |-> "damage", ret |-> LDB_OK, num |-> 0]
    /\ UNCHANGED << obj, log, before, trim, th >>

\* the calls made on the closed handle, with their argument
ClosedCalls ==
    { [op |-> o, arg |-> a] :
        o \in {"append", "read", "stats", "search", "rollback", "purge", "milestone"},
        a \in 0..MaxSeqnum + 1 }

\* what the call c returns on w, and the database it leaves
CallOf(w, c) ==
    CASE c.op = "append" ->
           LET r == ldb_append(w, << MkEntry(c.arg, 0, DefaultPayload) >>, << 1 >>, NoFault(1))
           IN  [ret |-> r.ret, w |-> r.w]
      [] c.op = "read" -> [ret |-> ldb_read(w, c.arg, 1).ret, w |-> w]
      [] c.op = "stats" -> [ret |-> ldb_stats(w, c.arg, c.arg, ZeroStats).ret, w |-> w]
      [] c.op = "search" ->
           [ret |-> ldb_search_by_ts(w, c.arg, LDB_SEARCH_LOWER).ret, w |-> w]
      [] c.op = "rollback" -> ldb_rollback(w, c.arg)
      [] c.op = "purge" -> ldb_purge(w, c.arg)
      [] c.op = "milestone" -> ldb_update_milestone(w, c.arg)

\* a call on a handle whose files are not open
ClosedCall(c) ==
    /\ ~obj.dat_fp
    /\ Returned(c.op, CallOf(W, c))
    /\ before' = [NoBefore EXCEPT !.dat = fs.dat, !.idx = fs.idx]
    /\ UNCHANGED << trim, th >>

NextClosed ==
    \/ \E check \in BOOLEAN : CallOpen(check)
    \/ CallClose
    \/ \E in \in CrashCalls : CallAppend(in)
    \/ \E seqnum \in 0..MaxSeqnum + 1 : CallPurge(seqnum)
    \/ DamageFirst
    \/ \E c \in ClosedCalls : ClosedCall(c)

SpecClosed == Init /\ [][NextClosed]_vars

(***************************************************************************)
(* The state machine of the calls that write: ldb_open, ldb_close,         *)
(* ldb_append, ldb_rollback and ldb_purge, in any order.                   *)
(***************************************************************************)
\* the calls of ldb_append: one entry with every seqnum and timestamp
WriteCalls ==
    { MkCall(<< MkEntry(s, t, DefaultPayload) >>, << m >>, NoFault(1)) :
        s \in Seqnums, t \in Timestamps, m \in Millis }

NextWrites ==
    \/ \E check \in BOOLEAN : CallOpen(check)
    \/ CallClose
    \/ \E in \in WriteCalls : CallAppend(in)
    \/ \E seqnum \in 0..MaxSeqnum + 1 : CallRollback(seqnum)
    \/ \E seqnum \in 0..MaxSeqnum + 1 : CallPurge(seqnum)

SpecWrites == Init /\ [][NextWrites]_vars

(***************************************************************************)
(* The state machine of an interrupted trim.  A process opens the database *)
(* of an empty directory, appends entries and may purge some; it is killed *)
(* inside ldb_purge or ldb_rollback, which leaves the files as they are on *)
(* disk at one of the steps of the function; the database is opened again. *)
(***************************************************************************)
\* a file holding cells
FileOf(cells) == [exists |-> TRUE, bytes |-> cells]

\* the files on disk at a step of a function
Stop(name, dat, idx, tmp) ==
    [stop |-> name, fs |-> [dat |-> dat, idx |-> idx, tmp |-> tmp]]

\* the steps of ldb_purge when it removes all the entries: the streams are
\* closed, the files removed, then created (empty until the fclose)
PurgeAllStops(w, c) ==
    { Stop("start", w.fs.dat, w.fs.idx, w.fs.tmp),
      Stop("closed", c.dat, c.idx, c.tmp),
      Stop("dat_removed", NoFile, c.idx, c.tmp),
      Stop("idx_removed", NoFile, NoFile, c.tmp),
      Stop("dat_open", FileOf(<< >>), NoFile, c.tmp),
      Stop("dat_created", FileOf(HeaderDatCells(0)), NoFile, c.tmp),
      Stop("idx_open", FileOf(HeaderDatCells(0)), FileOf(<< >>), c.tmp),
      Stop("idx_created", FileOf(HeaderDatCells(0)), FileOf(HeaderIdxCells), c.tmp) }

\* a variant that renames the temporary file when it holds its header only
PurgeSomeSteps_EarlyRename(w, wc, c, tmp) ==
    { Stop("renamed", FileOf(HeaderDatCells(0)), NoFile, NoFile) }

\* the steps of ldb_purge when it removes some entries, up to the creation of
\* the index: wc is the database once ldb_copy_file has run, c the files once
\* the streams are closed, tmp the cells of the temporary file
PurgeSomeSteps(w, wc, c, tmp) ==
    { Stop("start", w.fs.dat, w.fs.idx, w.fs.tmp),
      Stop("tmp_open", w.fs.dat, w.fs.idx, FileOf(<< >>)),
      Stop("tmp_header", wc.fs.dat, w.fs.idx, FileOf(HeaderDatCells(0))),
      Stop("tmp_complete", wc.fs.dat, w.fs.idx, FileOf(tmp)),
      Stop("closed", c.dat, c.idx, FileOf(tmp)),
      Stop("idx_removed", c.dat, NoFile, FileOf(tmp)),
      Stop("renamed", FileOf(tmp), NoFile, NoFile),
      Stop("idx_open", FileOf(tmp), FileOf(<< >>), NoFile),
      Stop("idx_created", FileOf(tmp), FileOf(HeaderIdxCells), NoFile) }

\* the steps of the ldb_open_file_idx that ends ldb_purge, p being what
\* ldb_purge returns: the index records reach the file one after the other
PurgeReopenSteps(p) ==
    IF p.ret < 0 THEN { }
    ELSE { Stop("reopened", p.w.fs.dat, Truncated(FlushIdx(p.w).fs.idx, k), NoFile) :
             k \in sizeof_header_idx..Len(FlushIdx(p.w).fs.idx.bytes) }

\* r is the index record of seqnum and d its data record
PurgeSomeStops(w, seqnum, r, d) ==
    IF r.ret # LDB_OK \/ d.ret # LDB_OK \/ d.record.seqnum # seqnum
    THEN { Stop("start", w.fs.dat, w.fs.idx, w.fs.tmp) }
    ELSE PurgeSomeSteps(w, FlushDat(w), ldb_close_files(FlushDat(w)).fs,
                        HeaderDatCells(0) \o ReadAt(FlushDat(w).fs.dat.bytes, r.record.pos,
                                                     w.obj.dat_end - r.record.pos))
         \cup PurgeReopenSteps(ldb_purge(w, seqnum))

PurgeSomeRead(w, seqnum, r) ==
    PurgeSomeStops(w, seqnum, r, ldb_read_record_dat(w.fs.dat.bytes, r.record.pos, TRUE))

\* the files that a kill inside ldb_purge(seqnum) leaves
PurgeStops(w, seqnum) ==
    IF w.obj.state.seqnum2 < seqnum THEN PurgeAllStops(w, ldb_close_files(w).fs)
    ELSE PurgeSomeRead(w, seqnum, ldb_read_record_idx(w.fs.idx.bytes, w.obj.state, seqnum))

\* the mutation of C37: the data file is zeroed from its end down
RollbackSteps_FromEnd(w, r) ==
    { Stop("dat_zeroed",
           [FlushDat(w).fs.dat EXCEPT
              !.bytes = WriteAt(@, Len(FlushDat(w).fs.dat.bytes) - z, Zeros(z))],
           r.w.fs.idx, w.fs.tmp) :
        z \in 0..(Len(FlushDat(w).fs.dat.bytes) - r.w.obj.dat_end) }

\* the steps of ldb_rollback, r being what it returns: the index records are
\* zeroed from the last one down, then the data file from the new dat_end up
RollbackSteps(w, r) ==
    { Stop("idx_zeroed", w.fs.dat,
           FlushIdx(ZeroIdxLoop(w, w.obj.state.seqnum2 - j, w.obj.state.seqnum2)).fs.idx,
           w.fs.tmp) : j \in 0..r.ret }
    \cup
    { Stop("dat_zeroed",
           [FlushDat(w).fs.dat EXCEPT !.bytes = WriteAt(@, r.w.obj.dat_end, Zeros(z))],
           r.w.fs.idx, w.fs.tmp) :
        z \in 0..(Len(FlushDat(w).fs.dat.bytes) - r.w.obj.dat_end) }

RollbackStopsOf(w, r) ==
    IF r.ret < 0 THEN { Stop("start", w.fs.dat, w.fs.idx, w.fs.tmp) }
    ELSE RollbackSteps(w, r)

\* the files that a kill inside ldb_rollback(seqnum) leaves
RollbackStops(w, seqnum) == RollbackStopsOf(w, ldb_rollback(w, seqnum))

\* the process is killed (once) inside a trim that has entries to remove
KilledIn(op, seqnum, s) ==
    /\ fs' = s.fs
    /\ obj' = ClosedObj
    /\ res' = [op |-> "kill", ret |-> LDB_OK, num |-> 0]
    /\ trim' = [op |-> op, seqnum |-> seqnum, stop |-> s.stop, state |-> obj.state]
    /\ UNCHANGED << log, before, th >>

KillPurge(seqnum) ==
    /\ ldb_is_valid_db(obj)
    /\ trim = NoTrim
    /\ obj.state.seqnum1 # 0
    /\ obj.state.seqnum1 < seqnum
    /\ \E s \in PurgeStops(W, seqnum) : KilledIn("purge", seqnum, s)

KillRollback(seqnum) ==
    /\ ldb_is_valid_db(obj)
    /\ trim = NoTrim
    /\ seqnum < obj.state.seqnum2
    /\ \E s \in RollbackStops(W, seqnum) : KilledIn("rollback", seqnum, s)

\* ldb_append and ldb_purge by the first process
TrimAppend(in) == trim = NoTrim /\ CallAppend(in)

TrimPurge(seqnum) == trim = NoTrim /\ CallPurge(seqnum)

NextTrim ==
    \/ \E check \in BOOLEAN : Recover(check)
    \/ \E in \in CrashCalls : TrimAppend(in)
    \/ \E seqnum \in Seqnums : TrimPurge(seqnum)
    \/ \E seqnum \in 1..(MaxSeqnum + 1) : KillPurge(seqnum)
    \/ \E seqnum \in Seqnums : KillRollback(seqnum)

SpecTrim == Init /\ [][NextTrim]_vars

(***************************************************************************)
(* The state machine of the threads.  The database of an empty directory   *)
(* is open.  One thread writes (ldb_append, ldb_rollback, ldb_purge) and   *)
(* the threads of Readers read (ldb_read of one entry); a step is what a   *)
(* thread does between two operations that another thread can observe:     *)
(* locking or unlocking a mutex, writing to a stream, flushing it,         *)
(* assigning obj->state, reading the files.                                *)
(***************************************************************************)
\* the calls of ldb_append of the thread that writes
ThreadCalls ==
    CrashCalls \cup { MkCall(<< AutoEntry, AutoEntry >>, << 1, 1 >>, NoFault(2)) }

\* the calls of ldb_rollback and ldb_purge of the thread that writes
TrimOps == {"rollback", "purge"}

InitThreads ==
    /\ \E o \in { ldb_open([fs |-> [dat |-> NoFile, idx |-> NoFile, tmp |-> NoFile],
                             obj |-> ClosedObj], FALSE, "none") } :
          /\ fs = o.w.fs
          /\ obj = o.w.obj
          /\ res = [op |-> "open", ret |-> o.ret, num |-> 0]
    /\ log = << >>
    /\ before = NoBefore
    /\ trim = NoTrim
    /\ th = [NoThreads EXCEPT !.pub = "open"]

\* ldb_append is called: the arguments are checked, no mutex is taken (the
\* calls stop when the seqnums reach MaxSeqnum)
WAppendCall(in) ==
    /\ th.writer.pc = "idle"
    /\ ldb_is_valid_db(obj)
    /\ obj.state.seqnum2 + Len(in.entries) <= MaxSeqnum
    /\ th' = [th EXCEPT !.writer = [IdleWriter EXCEPT !.pc = "a_lock", !.op = "append",
                                                      !.in = in]]
    /\ UNCHANGED << fs, obj, res, log, before, trim >>

\* a variant that takes mutex_files as ldb_read does, and does not hold it
WAppendLock_Files ==
    /\ th.writer.pc = "a_lock"
    /\ th.data = "none"
    /\ th.files = "none"
    /\ th' = [th EXCEPT !.data = "w", !.writer.pc = "a_copy"]
    /\ UNCHANGED << fs, obj, res, log, before, trim >>

\* pthread_mutex_lock(&obj->mutex_data) before the copy of obj->state
WAppendLock ==
    /\ th.writer.pc = "a_lock"
    /\ th.data = "none"
    /\ th' = [th EXCEPT !.data = "w", !.writer.pc = "a_copy"]
    /\ UNCHANGED << fs, obj, res, log, before, trim >>

\* state = obj->state; pthread_mutex_unlock(&obj->mutex_data)
WAppendCopy ==
    /\ th.writer.pc = "a_copy"
    /\ th' = [th EXCEPT !.data = "none", !.writer.pc = "a_write",
                        !.writer.state = obj.state]
    /\ UNCHANGED << fs, obj, res, log, before, trim >>

\* the for loop, l being its outcome: the records are written to the streams
\* and the local state follows; the function returns when nothing was written
WAppendWritten(l) ==
    /\ fs' = l.w.fs
    /\ obj' = l.w.obj
    /\ th' = [th EXCEPT !.writer = IF l.i = 1 THEN IdleWriter
                                   ELSE [@ EXCEPT !.pc = "a_flush_dat", !.state = l.state,
                                                  !.ret = l.ret, !.num = l.i - 1,
                                                  !.plan = l.entries]]
    /\ res' = IF l.i = 1 THEN [op |-> "append", ret |-> l.ret, num |-> 0] ELSE res
    /\ UNCHANGED << log, before, trim >>

WAppendWrite ==
    /\ th.writer.pc = "a_write"
    /\ WAppendWritten(AppendLoop(W, th.writer.state, th.writer.in.entries, 1,
                                 th.writer.in.millis, th.writer.in.fault))

\* fflush(obj->dat_fp)
WAppendFlushDat ==
    /\ th.writer.pc = "a_flush_dat"
    /\ fs' = FlushDat(W).fs
    /\ obj' = FlushDat(W).obj
    /\ th' = [th EXCEPT !.writer.pc = "a_flush_idx"]
    /\ UNCHANGED << res, log, before, trim >>

\* fflush(obj->idx_fp)
WAppendFlushIdx ==
    /\ th.writer.pc = "a_flush_idx"
    /\ fs' = FlushIdx(W).fs
    /\ obj' = FlushIdx(W).obj
    /\ th' = [th EXCEPT !.writer.pc = "a_pub_lock"]
    /\ UNCHANGED << res, log, before, trim >>

\* pthread_mutex_lock(&obj->mutex_data) before the assignment of obj->state
WAppendPubLock ==
    /\ th.writer.pc = "a_pub_lock"
    /\ th.data = "none"
    /\ th' = [th EXCEPT !.data = "w", !.writer.pc = "a_pub"]
    /\ UNCHANGED << fs, obj, res, log, before, trim >>

\* obj->state = state; pthread_mutex_unlock(&obj->mutex_data); return
WAppendPub ==
    /\ th.writer.pc = "a_pub"
    /\ obj' = [obj EXCEPT !.state = th.writer.state]
    /\ th' = [th EXCEPT !.data = "none", !.pub = "append", !.writer = IdleWriter]
    /\ res' = [op |-> "append", ret |-> th.writer.ret, num |-> th.writer.num]
    /\ log' = [s \in DOMAIN log \cup { th.writer.plan[i].seqnum : i \in 1..th.writer.num } |->
                 IF s \in DOMAIN log THEN log[s]
                 ELSE th.writer.plan[CHOOSE i \in 1..th.writer.num :
                                         th.writer.plan[i].seqnum = s]]
    /\ UNCHANGED << fs, before, trim >>

\* ldb_rollback or ldb_purge is called
WTrimCall(op, seqnum) ==
    /\ th.writer.pc = "idle"
    /\ th' = [th EXCEPT !.writer = [IdleWriter EXCEPT !.pc = "t_lock", !.op = op,
                                                      !.seqnum = seqnum]]
    /\ UNCHANGED << fs, obj, res, log, before, trim >>

\* what the function called does to the database when no thread interferes
TrimPlan(w, op, seqnum) ==
    IF op = "rollback" THEN ldb_rollback(w, seqnum) ELSE ldb_purge(w, seqnum)

\* the files on disk at the steps of the function called
TrimStops(w, op, seqnum) ==
    IF op = "rollback" THEN RollbackStops(w, seqnum) ELSE PurgeStops(w, seqnum)

\* a variant that does not wait for mutex_files
WTrimLock_NoWait ==
    /\ th.writer.pc = "t_lock"
    /\ th' = [th EXCEPT !.files = "w", !.writer.pc = "t_files",
                        !.writer.plan = TrimPlan(W, th.writer.op, th.writer.seqnum)]
    /\ UNCHANGED << fs, obj, res, log, before, trim >>

\* pthread_mutex_lock(&obj->mutex_files)
WTrimLock ==
    /\ th.writer.pc = "t_lock"
    /\ th.files = "none"
    /\ th' = [th EXCEPT !.files = "w", !.writer.pc = "t_files",
                        !.writer.plan = TrimPlan(W, th.writer.op, th.writer.seqnum)]
    /\ UNCHANGED << fs, obj, res, log, before, trim >>

\* the function is at one of its steps: the files are those of the step
WTrimFiles ==
    /\ th.writer.pc = "t_files"
    /\ IF th.writer.plan.ret > 0
       THEN \E s \in TrimStops(W, th.writer.op, th.writer.seqnum) : fs' = s.fs
       ELSE fs' = fs
    /\ th' = [th EXCEPT !.writer.pc = "t_state"]
    /\ UNCHANGED << obj, res, log, before, trim >>

\* the function has run to its end: files, streams and obj->state are set
WTrimState ==
    /\ th.writer.pc = "t_state"
    /\ fs' = th.writer.plan.w.fs
    /\ obj' = th.writer.plan.w.obj
    /\ res' = [op |-> th.writer.op, ret |-> th.writer.plan.ret, num |-> 0]
    /\ log' = IF th.writer.plan.ret < 0 THEN log
              ELSE IF th.writer.op = "rollback"
              THEN [s \in { x \in DOMAIN log : x <= th.writer.seqnum } |-> log[s]]
              ELSE [s \in { x \in DOMAIN log : x >= th.writer.seqnum } |-> log[s]]
    /\ th' = [th EXCEPT !.writer.pc = "t_unlock",
                        !.pub = IF th.writer.plan.ret > 0 THEN th.writer.op ELSE @]
    /\ UNCHANGED << before, trim >>

\* the mutation of C40: the function returns with mutex_files locked
WTrimUnlock_Held ==
    /\ th.writer.pc = "t_unlock"
    /\ th' = [th EXCEPT !.writer = IdleWriter]
    /\ UNCHANGED << fs, obj, res, log, before, trim >>

\* pthread_mutex_unlock(&obj->mutex_files); return
WTrimUnlock ==
    /\ th.writer.pc = "t_unlock"
    /\ th' = [th EXCEPT !.files = "none", !.writer = IdleWriter]
    /\ UNCHANGED << fs, obj, res, log, before, trim >>

\* ldb_read is called by the thread r
RCall(r) ==
    /\ th.reader[r].pc = "idle"
    /\ th' = [th EXCEPT !.reader[r] = [IdleReader EXCEPT !.pc = "r_lock"]]
    /\ UNCHANGED << fs, obj, res, log, before, trim >>

\* pthread_mutex_lock(&obj->mutex_files); ldb_is_valid_db(obj)
RLockFiles(r) ==
    /\ th.reader[r].pc = "r_lock"
    /\ th.files = "none"
    /\ th' = [th EXCEPT !.files = r,
                        !.reader[r].pc = IF ldb_is_valid_db(obj) THEN "r_lock_data"
                                         ELSE "r_unlock",
                        !.reader[r].ret = IF ldb_is_valid_db(obj) THEN @ ELSE LDB_ERR]
    /\ UNCHANGED << fs, obj, res, log, before, trim >>

\* pthread_mutex_lock(&obj->mutex_data)
RLockData(r) ==
    /\ th.reader[r].pc = "r_lock_data"
    /\ th.data = "none"
    /\ th' = [th EXCEPT !.data = r, !.reader[r].pc = "r_copy"]
    /\ UNCHANGED << fs, obj, res, log, before, trim >>

\* state = obj->state; pthread_mutex_unlock(&obj->mutex_data)
RCopy(r) ==
    /\ th.reader[r].pc = "r_copy"
    /\ th' = [th EXCEPT !.data = "none", !.reader[r].pc = "r_read",
                        !.reader[r].state = obj.state, !.reader[r].pub = th.pub]
    /\ UNCHANGED << fs, obj, res, log, before, trim >>

\* what ldb_read does once it holds its copy of the state
ReadSnapshot(w, state, seqnum) == ldb_read([w EXCEPT !.obj.state = state], seqnum, 1)

\* the checks and the loop of ldb_read(seqnum, 1), on the files as they are;
\* seqnum, given in the call, is not used before this step
RRead(r, seqnum) ==
    /\ th.reader[r].pc = "r_read"
    /\ th' = [th EXCEPT !.reader[r].pc = "r_unlock",
                        !.reader[r].seqnum = seqnum,
                        !.reader[r].ret = ReadSnapshot(W, th.reader[r].state, seqnum).ret]
    /\ UNCHANGED << fs, obj, res, log, before, trim >>

\* pthread_mutex_unlock(&obj->mutex_files); return
RUnlock(r) ==
    /\ th.reader[r].pc = "r_unlock"
    /\ th' = [th EXCEPT !.files = "none", !.reader[r] = IdleReader]
    /\ UNCHANGED << fs, obj, res, log, before, trim >>

\* a step of ldb_append
WAppendStep ==
    \/ WAppendLock
    \/ WAppendCopy
    \/ WAppendWrite
    \/ WAppendFlushDat
    \/ WAppendFlushIdx
    \/ WAppendPubLock
    \/ WAppendPub

NextThreads ==
    \/ \E in \in ThreadCalls : WAppendCall(in)
    \/ WAppendStep
    \/ \E op \in TrimOps, seqnum \in 0..(MaxSeqnum + 1) : WTrimCall(op, seqnum)
    \/ WTrimLock
    \/ WTrimFiles
    \/ WTrimState
    \/ WTrimUnlock
    \/ \E r \in Readers : RCall(r)
    \/ \E r \in Readers : RLockFiles(r)
    \/ \E r \in Readers : RLockData(r)
    \/ \E r \in Readers : RCopy(r)
    \/ \E r \in Readers, seqnum \in 1..MaxSeqnum : RRead(r, seqnum)
    \/ \E r \in Readers : RUnlock(r)

SpecThreads == InitThreads /\ [][NextThreads]_vars

\* the steps of ldb_read
ReadStep ==
    \/ \E r \in Readers : RCall(r)
    \/ \E r \in Readers : RLockFiles(r)
    \/ \E r \in Readers : RLockData(r)
    \/ \E r \in Readers : RCopy(r)
    \/ \E r \in Readers, seqnum \in 1..MaxSeqnum : RRead(r, seqnum)
    \/ \E r \in Readers : RUnlock(r)

NextAppends ==
    \/ \E in \in ThreadCalls : WAppendCall(in)
    \/ WAppendStep
    \/ ReadStep

\* the steps of ldb_append that wait for no lock and run no loop
WAppendLocal ==
    \/ WAppendCopy
    \/ WAppendFlushDat
    \/ WAppendFlushIdx
    \/ WAppendPub

\* the thread that appends and the threads that read.  The appender is
\* scheduled: its local steps are taken, its loop over the entries ends (the
\* step is enabled whenever the thread is at it), and it gets mutex_data if
\* the mutex is free again and again.  A reader that holds mutex_data copies
\* the state and releases it; a reader may stay inside ldb_read, holding
\* mutex_files, for ever
SpecAppendsFair ==
    /\ InitThreads
    /\ [][NextAppends]_vars
    /\ WF_vars(WAppendLocal)
    /\ SF_vars(WAppendLock)
    /\ SF_vars(WAppendPubLock)
    /\ []<>(th.writer.pc # "a_write")
    /\ \A r \in Readers : WF_vars(RCopy(r))

\* the calls of the threads when the locks are looked at: the thread that
\* writes appends one entry, rolls back and purges; the threads of Readers
\* read one entry
LockCalls == { MkCall(<< AutoEntry >>, << 1 >>, NoFault(1)) }

NextLocks ==
    \/ \E in \in LockCalls : WAppendCall(in)
    \/ WAppendStep
    \/ \E op \in TrimOps, seqnum \in {MaxSeqnum - 1, MaxSeqnum} : WTrimCall(op, seqnum)
    \/ WTrimLock
    \/ WTrimFiles
    \/ WTrimState
    \/ WTrimUnlock
    \/ \E r \in Readers : RCall(r)
    \/ \E r \in Readers : RLockFiles(r)
    \/ \E r \in Readers : RLockData(r)
    \/ \E r \in Readers : RCopy(r)
    \/ \E r \in Readers, seqnum \in {MaxSeqnum - 1, MaxSeqnum} : RRead(r, seqnum)
    \/ \E r \in Readers : RUnlock(r)

\* Every thread is scheduled: a thread that is inside a function and waits
\* for no mutex takes its next step, and a thread that waits for a mutex
\* gets it if the mutex is free again and again.  The steps that compute a
\* whole loop (a_write, t_files, t_state, r_read) are enabled whenever the
\* thread is at them
SpecLocksFair ==
    /\ InitThreads
    /\ [][NextLocks]_vars
    /\ WF_vars(WAppendLocal)
    /\ SF_vars(WAppendLock)
    /\ SF_vars(WAppendPubLock)
    /\ []<>(th.writer.pc # "a_write")
    /\ []<>(th.writer.pc # "t_files")
    /\ []<>(th.writer.pc # "t_state")
    /\ WF_vars(WTrimUnlock)
    /\ ([]<>(th.writer.pc = "t_lock" /\ th.files = "none") => []<>(th.writer.pc # "t_lock"))
    /\ \A r \in Readers :
          /\ SF_vars(RLockFiles(r))
          /\ SF_vars(RLockData(r))
          /\ WF_vars(RCopy(r))
          /\ []<>(th.reader[r].pc # "r_read")
          /\ WF_vars(RUnlock(r))

(***************************************************************************)
(* Observers used by the properties.                                       *)
(***************************************************************************)
\* the records of the data file on disk, read one after the other from the
\* end of the header up to offset end, each with the result of its read
RECURSIVE RecordsUpTo(_, _, _)
RecordsFrom(bytes, pos, end, r) ==
    IF r.ret # LDB_OK THEN << r >>
    ELSE << r >> \o RecordsUpTo(bytes,
                        pos + sizeof_record_dat + r.record.metadata_len + r.record.data_len,
                        end)

RecordsUpTo(bytes, pos, end) ==
    IF pos >= end THEN << >>
    ELSE RecordsFrom(bytes, pos, end, ldb_read_record_dat(bytes, pos, TRUE))

LiveRecords == RecordsUpTo(fs.dat.bytes, sizeof_header_dat, obj.dat_end)

\* the number of records that the state announces
StateCount(state) == IF state.seqnum1 = 0 THEN 0 ELSE state.seqnum2 - state.seqnum1 + 1

\* equality of two entries: seqnum, timestamp, lengths and the bytes they own
SameEntry(a, b) ==
    /\ a.seqnum = b.seqnum
    /\ a.timestamp = b.timestamp
    /\ a.metadata_len = b.metadata_len
    /\ a.data_len = b.data_len
    /\ a.metadata_len # 0 => SubSeq(a.metadata, 1, a.metadata_len) = SubSeq(b.metadata, 1, b.metadata_len)
    /\ a.data_len # 0 => SubSeq(a.data, 1, a.data_len) = SubSeq(b.data, 1, b.data_len)

\* the seqnum and the timestamp that entry i of a call is compared with: those
\* of the state for the first entry, those of the entry before it otherwise
RunningSeqnum(r, i) == IF i = 1 THEN obj.state.seqnum2 ELSE r.entries[i - 1].seqnum

RunningTimestamp(r, i) == IF i = 1 THEN obj.state.timestamp2 ELSE r.entries[i - 1].timestamp

\* the seqnum given fits after the seqnum last
SeqnumFits(given, last) == given = 0 \/ last = 0 \/ given = last + 1

\* r is what read(S, 1) returned: LDB_OK and one entry, whose seqnum is S
ReadsOne(r, S) == r.ret = LDB_OK /\ r.num = 1 /\ r.entries[1].seqnum = S

\* r is what read(e.seqnum, 1) returned: LDB_OK and one entry, equal to e
ReadsEntry(r, e) == r.ret = LDB_OK /\ r.num = 1 /\ SameEntry(r.entries[1], e)

\* the records are valid and their seqnums are seqnum1, seqnum1 + 1, ..., seqnum2
Contiguous(records, state) ==
    /\ Len(records) = StateCount(state)
    /\ \A i \in 1..Len(records) :
          /\ records[i].ret = LDB_OK
          /\ records[i].record.seqnum = state.seqnum1 + (i - 1)
    /\ (Len(records) = 0) <=> (state.seqnum1 = 0 /\ state.seqnum2 = 0)

\* the timestamps of the records do not decrease, and timestamp1 and
\* timestamp2 are those of the first and of the last record
Monotonic(records, state) ==
    Len(records) > 0 =>
        /\ \A i \in 1..Len(records) - 1 :
              records[i].record.timestamp <= records[i + 1].record.timestamp
        /\ state.timestamp1 = records[1].record.timestamp
        /\ state.timestamp2 = records[Len(records)].record.timestamp

\* the seqnum rule on the call in of ldb_append that returned r
SeqnumRule(in, r) ==
    \A i \in 1..Len(in.entries) :
        LET given == in.entries[i].seqnum
            last == RunningSeqnum(r, i)
        IN  /\ i <= r.num =>
                  /\ SeqnumFits(given, last)
                  /\ r.entries[i].seqnum = IF given = 0 THEN last + 1 ELSE given
            /\ i = r.num + 1 =>
                  ((r.ret = LDB_ERR_ENTRY_SEQNUM) <=> ~SeqnumFits(given, last))

\* the timestamp rule on the call in of ldb_append that returned r; earlier is
\* the outcome of the checks made before the one of the timestamp
TimestampRule(in, r) ==
    \A i \in 1..Len(in.entries) :
        LET given == in.entries[i].timestamp
            last == RunningTimestamp(r, i)
            now == in.millis[i]
            earlier == CheckEntry([seqnum2 |-> RunningSeqnum(r, i), timestamp2 |-> 0],
                                  AssignSeqnum([seqnum2 |-> RunningSeqnum(r, i)],
                                               in.entries[i]))
        IN  /\ i <= r.num =>
                  /\ r.entries[i].timestamp =
                        IF given # 0 THEN given ELSE IF now > last THEN now ELSE last
                  /\ r.entries[i].timestamp >= last
            /\ i = r.num + 1 =>
                  /\ given = 0 => r.ret # LDB_ERR_ENTRY_TIMESTAMP
                  /\ earlier = LDB_OK =>
                        ((r.ret = LDB_ERR_ENTRY_TIMESTAMP) <=> (given # 0 /\ given < last))

\* what a call of ldb_append that returned r left, when r.ret is an error;
\* after is the files and the object it left, written the records of the data
\* file after it
StoppedAt(in, r, after, written) ==
    /\ r.num < Len(in.entries)
    /\ \A k \in 1..r.num :
          ReadsEntry(ldb_read(after, r.entries[k].seqnum, 1), r.entries[k])
    /\ r.num > 0 => after.obj.dat_buf = NoBuf /\ after.obj.idx_buf = NoBuf
    /\ Len(written) = Len(LiveRecords) + r.num
    /\ ReadAt(FlushDat(after).fs.dat.bytes, after.obj.dat_end, Len(fs.dat.bytes))
          = ReadAt(fs.dat.bytes, after.obj.dat_end, Len(fs.dat.bytes))
    /\ r.num > 0 => after.obj.state.seqnum2 = r.entries[r.num].seqnum
    /\ r.num = 0 => after.obj.state = obj.state

StopsAtFirstFailure(in, r) ==
    r.ret # LDB_OK =>
        StoppedAt(in, r, r.w,
                  RecordsUpTo(FlushDat(r.w).fs.dat.bytes, sizeof_header_dat, r.w.obj.dat_end))

(***************************************************************************)
(* C1.  In every reachable state of an open database, for every seqnum S   *)
(* with seqnum1 <= S <= seqnum2, read(S, 1) returns LDB_OK with exactly    *)
(* one entry, whose seqnum is S.                                           *)
(***************************************************************************)
C1_ReadEverySeqnum ==
    ldb_is_valid_db(obj) /\ obj.state.seqnum1 # 0 =>
        \A S \in obj.state.seqnum1..obj.state.seqnum2 :
            ReadsOne(ldb_read(W, S, 1), S)

(***************************************************************************)
(* C2.  In every reachable state of an open database the records of the    *)
(* data file, read in file order from the end of the header up to dat_end, *)
(* are valid and have the seqnums seqnum1, seqnum1 + 1, ..., seqnum2,      *)
(* without gap or repetition; there is no record exactly when              *)
(* seqnum1 = seqnum2 = 0.                                                  *)
(***************************************************************************)
C2_ContiguousSeqnums ==
    ldb_is_valid_db(obj) => Contiguous(LiveRecords, obj.state)

\* C2's case: a purge removed the first record and left two records
C2_Witness ==
    /\ res.op = "purge" /\ res.ret = 1
    /\ obj.state.seqnum1 = 2 /\ obj.state.seqnum2 = 3

(***************************************************************************)
(* C3.  In every reachable state of an open database the timestamps of the *)
(* records of the data file do not decrease from one record to the next,   *)
(* state.timestamp1 is the timestamp of the first record and               *)
(* state.timestamp2 the timestamp of the last one.                         *)
(***************************************************************************)
C3_MonotonicTimestamps ==
    ldb_is_valid_db(obj) => Monotonic(LiveRecords, obj.state)

\* C3's case: a rollback removed a record and left records of two timestamps
C3_Witness ==
    /\ res.op = "rollback" /\ res.ret = 1
    /\ obj.state.seqnum1 < obj.state.seqnum2
    /\ obj.state.timestamp1 < obj.state.timestamp2

(***************************************************************************)
(* C4.  An entry that an append reported as written is returned by         *)
(* read(seqnum, 1) with the same seqnum, timestamp, metadata and data, as  *)
(* long as no rollback below its seqnum and no purge above it removed it.  *)
(***************************************************************************)
C4_ReadReturnsAppended ==
    ldb_is_valid_db(obj) =>
        \A s \in DOMAIN log :
            ReadsEntry(ldb_read(W, s, 1), log[s])

(***************************************************************************)
(* C5.  Seqnum rule of append, for every call made on an open database and *)
(* every entry i of the call, against the running last seqnum (the one of  *)
(* the state for the first entry, the one of entry i - 1 otherwise): a     *)
(* written entry given with seqnum 0 has the running seqnum plus one (1 on *)
(* an empty log); a written entry given with a seqnum keeps it, and it is  *)
(* the running seqnum plus one unless the log is empty; the call stops at  *)
(* an entry with LDB_ERR_ENTRY_SEQNUM exactly when that entry was given a  *)
(* seqnum other than the running one plus one on a log that is not empty.  *)
(***************************************************************************)
C5_AppendSeqnumRule ==
    ldb_is_valid_db(obj) =>
        \A in \in AppendCalls :
            SeqnumRule(in, ldb_append(W, in.entries, in.millis, in.fault))

\* C5's case: a batch whose first entry was written and whose second entry
\* was refused for its seqnum
C5_Witness ==
    res.op = "append" /\ res.ret = LDB_ERR_ENTRY_SEQNUM /\ res.num = 1

C7_AppendStopsAtFirstFailure ==
    ldb_is_valid_db(obj) =>
        \A in \in AppendCalls \cup FaultCalls :
            StopsAtFirstFailure(in, ldb_append(W, in.entries, in.millis, in.fault))


(***************************************************************************)
(* Observers of a recovery.  The entries that the killed process appended  *)
(* are those of log, with seqnums 1, 2, ...; what the files should hold is *)
(* computed from them, not from what ldb_open read.                        *)
(***************************************************************************)
\* the number of cells of the record of an entry in the data file
EntrySize(e) == sizeof_record_dat + e.metadata_len + e.data_len

\* the offset just after the record of the k-th entry of l
RECURSIVE EndOf(_, _)
EndOf(l, k) == IF k = 0 THEN sizeof_header_dat ELSE EndOf(l, k - 1) + EntrySize(l[k])

\* the number of entries of l whose record is whole in the first n cells
Survivors(l, n) == Cardinality({ s \in DOMAIN l : EndOf(l, s) <= n })

\* the state that the first k entries of l determine
StateOf(l, k) ==
    IF k = 0 THEN ZeroState
    ELSE [seqnum1 |-> 1, timestamp1 |-> l[1].timestamp,
          seqnum2 |-> k, timestamp2 |-> l[k].timestamp, milestone |-> 0]

\* the data file of the first k entries of l
RECURSIVE DataOf(_, _)
DataOf(l, k) == IF k = 0 THEN HeaderDatCells(0) ELSE DataOf(l, k - 1) \o EntryCells(l[k])

\* the index file of the first k entries of l
RECURSIVE IndexOf(_, _)
IndexOf(l, k) ==
    IF k = 0 THEN HeaderIdxCells
    ELSE IndexOf(l, k - 1) \o << k, l[k].timestamp, EndOf(l, k - 1) >>

\* bytes holds cells, and zeros after them
HoldsThenZeros(bytes, cells) ==
    /\ Len(bytes) >= Len(cells)
    /\ SubSeq(bytes, 1, Len(cells)) = cells
    /\ \A c \in (Len(cells) + 1)..Len(bytes) : bytes[c] = 0

\* ldb_open has returned on the files that a kill left
Crashed == res.op = "open" /\ before.killed

\* the number of entries appended by the killed process
Written == Cardinality(DOMAIN log)

\* the number of entries whose record is whole in the data file that was left
Survived == Survivors(log, Len(before.dat.bytes))

\* the number of whole records of the index file that was left
Indexed == (Len(before.idx.bytes) - sizeof_header_idx) \div sizeof_record_idx

\* ldb_open returned OK, the state is that of the first k entries of l, and
\* the data stream holds their records followed by zeros
RecoveredState(l, k) ==
    /\ res.ret = LDB_OK
    /\ ldb_is_valid_db(obj)
    /\ obj.state = StateOf(l, k)
    /\ obj.dat_end = EndOf(l, k)
    /\ HoldsThenZeros(FlushDat(W).fs.dat.bytes, DataOf(l, k))

\* the index stream holds one record for each of the first k entries of l,
\* followed by zeros
IndexRebuilt(l, k) == HoldsThenZeros(FlushIdx(W).fs.idx.bytes, IndexOf(l, k))

\* the append r of one entry after the recovery of k entries of l got
\* seqnum k + 1, and the index file holds the records of all of them
ContinuesAtNext(r, l, k) ==
    /\ r.ret = LDB_OK
    /\ r.num = 1
    /\ r.entries[1].seqnum = k + 1
    /\ r.w.obj.state.seqnum2 = k + 1
    /\ r.w.fs.idx.bytes =
           IndexOf(l, k) \o << k + 1, r.entries[1].timestamp, EndOf(l, k) >>

NextAppendContinues(l, k) ==
    \A in \in CrashCalls :
        ContinuesAtNext(ldb_append(W, in.entries, in.millis, in.fault), l, k)

\* the index file that the kill left is the first cells of the index of log
\* and holds at least one whole record
IndexIsPrefix ==
    /\ before.idx.exists
    /\ Indexed >= 1
    /\ Len(before.idx.bytes) <= Len(IndexOf(log, Written))
    /\ before.idx.bytes = SubSeq(IndexOf(log, Written), 1, Len(before.idx.bytes))

\* the data file that the kill left is whole
DataIsWhole == before.dat.bytes = DataOf(log, Written)

\* the index file that the kill left has the length of the index of log and
\* another content
IndexDisagrees ==
    /\ before.idx.exists
    /\ Len(before.idx.bytes) = Len(IndexOf(log, Written))
    /\ before.idx.bytes # IndexOf(log, Written)

\* the wrong cell of the index lies in a record that is neither the first nor
\* the last
MiddleDisagrees ==
    /\ IndexDisagrees
    /\ \A c \in 1..Len(before.idx.bytes) :
          before.idx.bytes[c] # IndexOf(log, Written)[c] =>
              /\ c > sizeof_header_idx + sizeof_record_idx
              /\ c <= Len(before.idx.bytes) - sizeof_record_idx

(***************************************************************************)
(* C8.  Crash tolerance, as stated: whatever prefix of the data file       *)
(* the kill left and whatever the index file holds, ldb_open returns OK    *)
(* with the state of the entries whose record is whole, the data file      *)
(* holding nothing after them, and the index holding one record for each.  *)
(***************************************************************************)
C8_AnyPrefix ==
    Crashed => RecoveredState(log, Survived) /\ IndexRebuilt(log, Survived)

(***************************************************************************)
(* C8, amended.  When the prefix holds the whole header of the data        *)
(* file, ldb_open returns OK with the state of the entries whose record is *)
(* whole and nothing after them in the data file; the index holds one      *)
(* record for each, unless check is false and the index that was left has  *)
(* a wrong cell in a record that is neither the first nor the last.        *)
(***************************************************************************)
C8_CrashTolerance ==
    Crashed /\ Len(before.dat.bytes) >= sizeof_header_dat =>
        /\ RecoveredState(log, Survived)
        /\ (before.check \/ ~MiddleDisagrees) => IndexRebuilt(log, Survived)

\* a kill in the middle of a record, some records whole and some lost
C8_Witness ==
    /\ Crashed
    /\ res.ret = LDB_OK
    /\ Survived >= 1
    /\ Survived < Written
    /\ Len(before.dat.bytes) > EndOf(log, Survived)
    /\ obj.state.seqnum2 = Survived

(***************************************************************************)
(* C9.  Recovery of un-indexed records: when the index that the kill       *)
(* left references fewer records than the data file holds whole, ldb_open  *)
(* (check true or false) returns OK, the index holds one record for each   *)
(* record of the data file, the state and dat_end are those of the last    *)
(* one, what follows in the data file is zero, and the next append gets    *)
(* seqnum2 + 1.                                                            *)
(***************************************************************************)
C9_UnindexedRecovered ==
    Crashed /\ IndexIsPrefix /\ Survived > Indexed =>
        /\ RecoveredState(log, Survived)
        /\ IndexRebuilt(log, Survived)
        /\ NextAppendContinues(log, Survived)

\* a record without index record, a torn record after it, check false
C9_Witness ==
    /\ Crashed
    /\ IndexIsPrefix
    /\ Survived > Indexed
    /\ Len(before.dat.bytes) > EndOf(log, Survived)
    /\ ~before.check
    /\ before.fault = "none"
    /\ obj.state.seqnum2 = Survived

RECURSIVE RecordsOf(_, _, _)
RecordsOf(l, a, b) ==
    IF a > b THEN << >> ELSE EntryCells(l[a]) \o RecordsOf(l, a + 1, b)

\* the data file of the entries a..b of l
DataOfRange(l, a, b) == HeaderDatCells(0) \o RecordsOf(l, a, b)

\* the index records of the entries a..b of l, the record of a being at pos
RECURSIVE IndexRecordsOf(_, _, _, _)
IndexRecordsOf(l, a, b, pos) ==
    IF a > b THEN << >>
    ELSE << a, l[a].timestamp, pos >> \o IndexRecordsOf(l, a + 1, b, pos + EntrySize(l[a]))

\* the index file of the entries a..b of l
IndexOfRange(l, a, b) == HeaderIdxCells \o IndexRecordsOf(l, a, b, sizeof_header_dat)

\* the state of a database holding the entries a..b of l
StateOfRange(l, a, b) ==
    [seqnum1 |-> a, timestamp1 |-> l[a].timestamp,
     seqnum2 |-> b, timestamp2 |-> l[b].timestamp, milestone |-> 0]

\* ldb_open returned OK with the entries a..b of l: their state, their data
\* records and nothing after them, one index record for each
OpensWith(l, a, b) ==
    /\ res.ret = LDB_OK
    /\ ldb_is_valid_db(obj)
    /\ obj.state = StateOfRange(l, a, b)
    /\ HoldsThenZeros(FlushDat(W).fs.dat.bytes, DataOfRange(l, a, b))
    /\ HoldsThenZeros(FlushIdx(W).fs.idx.bytes, IndexOfRange(l, a, b))

\* the interrupted trim was a purge of some of the entries, not of all
PurgesSome ==
    /\ trim.op = "purge"
    /\ trim.state.seqnum1 < trim.seqnum
    /\ trim.seqnum <= trim.state.seqnum2

\* the seqnums of the entries that the interrupted trim was not removing
Kept ==
    IF trim.op = "rollback" THEN { s \in DOMAIN log : s <= trim.seqnum }
    ELSE { s \in DOMAIN log : s >= trim.seqnum }

(***************************************************************************)
(* C11.  Purge crash safety: when purge(X) with seqnum1 < X <= seqnum2 is  *)
(* stopped once the temporary file is complete and before the rename, the  *)
(* data file found is the original one and the next ldb_open gives the     *)
(* range seqnum1..seqnum2; when it is stopped after the rename and before  *)
(* the index is recreated, the next ldb_open rebuilds the index from the   *)
(* new data file and gives X..seqnum2; after a stop at any step ldb_open   *)
(* returns OK.                                                             *)
(***************************************************************************)
C11_PurgeCrashSafety ==
    Crashed /\ PurgesSome =>
        /\ res.ret = LDB_OK
        /\ trim.stop \in {"tmp_complete", "closed", "idx_removed"} =>
              /\ HoldsThenZeros(before.dat.bytes,
                                DataOfRange(log, trim.state.seqnum1, trim.state.seqnum2))
              /\ OpensWith(log, trim.state.seqnum1, trim.state.seqnum2)
        /\ trim.stop \in {"renamed", "idx_open"} =>
              /\ before.dat.bytes = DataOfRange(log, trim.seqnum, trim.state.seqnum2)
              /\ OpensWith(log, trim.seqnum, trim.state.seqnum2)

\* a kill just after the rename, two entries being kept of three
C11_Witness ==
    /\ Crashed
    /\ PurgesSome
    /\ trim.stop = "renamed"
    /\ ~before.idx.exists
    /\ res.ret = LDB_OK
    /\ obj.state.seqnum1 = trim.seqnum
    /\ obj.state.seqnum2 = trim.seqnum + 1

(***************************************************************************)
(* C12.  Interrupted trim loses no surviving record: when the process is   *)
(* killed at any step of rollback(X) or purge(X), the next ldb_open        *)
(* returns OK and every entry that was not being removed (seqnum <= X for  *)
(* rollback, seqnum >= X for purge) is read with the content it had.       *)
(***************************************************************************)
C12_InterruptedTrimKeeps ==
    Crashed /\ trim.op # "none" =>
        /\ res.ret = LDB_OK
        /\ \A s \in Kept : ReadsEntry(ldb_read(W, s, 1), log[s])


(***************************************************************************)
(* Observers of the threads.                                               *)
(***************************************************************************)
\* the thread r holds mutex_files: it is inside the critical section of ldb_read
InRead(r) == th.reader[r].pc \in {"r_lock_data", "r_copy", "r_read", "r_unlock"}

\* the thread r holds its copy of the state
HasSnapshot(r) == th.reader[r].pc = "r_read"

\* the thread that writes holds mutex_files: it is inside ldb_rollback or ldb_purge
InTrim == th.writer.pc \in {"t_files", "t_state", "t_unlock"}

\* the entry of seqnum s that was appended, or is being appended
EntryOf(s) ==
    IF s \in DOMAIN log THEN log[s]
    ELSE th.writer.plan[CHOOSE i \in 1..th.writer.num : th.writer.plan[i].seqnum = s]

\* with this copy of the state, every seqnum seqnum1..seqnum2 is read from
\* the files as they are now, with the content that was appended
ReadsAll(state) ==
    state.seqnum1 # 0 =>
        \A s \in state.seqnum1..state.seqnum2 : ReadsEntry(ReadSnapshot(W, state, s), EntryOf(s))

FilesHold(state) ==
    state.seqnum1 # 0 =>
        /\ Len(fs.dat.bytes) >= Len(DataOfRange(log, state.seqnum1, state.seqnum2))
        /\ SubSeq(fs.dat.bytes, 1, Len(DataOfRange(log, state.seqnum1, state.seqnum2)))
               = DataOfRange(log, state.seqnum1, state.seqnum2)
        /\ Len(FlushIdx(W).fs.idx.bytes) >= Len(IndexOfRange(log, state.seqnum1, state.seqnum2))
        /\ SubSeq(FlushIdx(W).fs.idx.bytes, 1,
                  Len(IndexOfRange(log, state.seqnum1, state.seqnum2)))
               = IndexOfRange(log, state.seqnum1, state.seqnum2)

C15_AppendNotBlocked == (th.writer.op = "append") ~> (th.writer.pc = "idle")

\* the writer is about to assign obj->state while a reader is reading
C15_Witness ==
    /\ th.writer.pc = "a_pub"
    /\ th.writer.state.seqnum2 = 2
    /\ th.files = "r1"
    /\ th.reader["r1"].pc = "r_read"
    /\ th.reader["r1"].state.seqnum2 = 1

\* the seqnums of the records whose timestamp satisfies the condition of the
\* mode against T
Matching(records, T, mode) ==
    { records[i].record.seqnum : i \in
        { i \in 1..Len(records) :
            /\ records[i].ret = LDB_OK
            /\ IF mode = LDB_SEARCH_LOWER THEN records[i].record.timestamp >= T
                                          ELSE records[i].record.timestamp > T } }

Smallest(S) == CHOOSE x \in S : \A y \in S : x <= y

\* r is what the reference definition of the search gives on the records
SearchAgrees(records, T, mode, r) ==
    IF Matching(records, T, mode) = {}
    THEN r.ret = LDB_ERR_NOT_FOUND
    ELSE r.ret = LDB_OK /\ r.seqnum = Smallest(Matching(records, T, mode))

(***************************************************************************)
(* C16.  In every reachable state of an open database, for every timestamp *)
(* T and both modes, ldb_search_by_ts agrees with the reference definition *)
(* on the records of the data file up to dat_end: LDB_SEARCH_LOWER returns *)
(* the smallest seqnum whose timestamp is >= T, LDB_SEARCH_UPPER the       *)
(* smallest seqnum whose timestamp is > T, and each returns                *)
(* LDB_ERR_NOT_FOUND exactly when no record satisfies the condition.       *)
(***************************************************************************)
C16_SearchAgrees ==
    ldb_is_valid_db(obj) =>
        \A T \in 0..MaxTimestamp + 1, mode \in SearchModes :
            SearchAgrees(LiveRecords, T, mode, ldb_search_by_ts(W, T, mode))

\* C16's case: a search went through its loop on three records, the first two
\* of equal timestamp, and found the third
C16_Witness ==
    /\ res.op = "search" /\ res.ret = LDB_OK /\ res.num = 3
    /\ obj.state.seqnum1 = 1 /\ obj.state.seqnum2 = 3
    /\ Len(LiveRecords) = 3
    /\ LiveRecords[1].record.timestamp = LiveRecords[2].record.timestamp
    /\ LiveRecords[2].record.timestamp < LiveRecords[3].record.timestamp

\* no seqnum greater than X is read from w
NothingAbove(w, X) ==
    \A S \in (X + 1)..(MaxSeqnum + 1) : ldb_read(w, S, 1).ret = LDB_ERR_NOT_FOUND

\* the data file of w, nothing of it waiting in the stream, holds zeros from
\* dat_end on
ZerosBeyond(w) ==
    /\ w.obj.dat_buf = NoBuf
    /\ \A c \in (w.obj.dat_end + 1)..Len(w.fs.dat.bytes) : w.fs.dat.bytes[c] = 0

\* what ldb_rollback(X) that returned r left after it, last being the seqnum2
\* expected
RolledBack(X, r, last) ==
    r.ret >= 0 =>
        /\ r.w.obj.state.seqnum2 = last
        /\ NothingAbove(r.w, X)
        /\ ZerosBeyond(r.w)

(***************************************************************************)
(* C17.  In every reachable state of an open database and for every X,     *)
(* a call of ldb_rollback(X) that returns no error leaves seqnum2 equal to *)
(* min(old seqnum2, X), no seqnum greater than X readable, and zeros in    *)
(* the data file from the new dat_end on.                                  *)
(***************************************************************************)
C17_RollbackMin ==
    ldb_is_valid_db(obj) =>
        \A X \in 0..MaxSeqnum + 1 :
            RolledBack(X, ldb_rollback(W, X), ldb_min(obj.state.seqnum2, X))

(***************************************************************************)
(* C17, amended.  As C17, with seqnum2 equal to min(old seqnum2, X) when   *)
(* X is not below the old seqnum1, and to 0 (the log is left empty, with   *)
(* seqnum1 = seqnum2 = 0) when X is below the old seqnum1.                 *)
(***************************************************************************)
C17_RollbackPost ==
    ldb_is_valid_db(obj) =>
        \A X \in 0..MaxSeqnum + 1 :
            RolledBack(X, ldb_rollback(W, X),
                       IF X < obj.state.seqnum1 THEN 0 ELSE ldb_min(obj.state.seqnum2, X))

\* C17's case: a rollback removed two of three records, whose bytes are in
\* the data file after dat_end
C17_Witness ==
    /\ res.op = "rollback" /\ res.ret = 2
    /\ obj.state.seqnum1 = 1 /\ obj.state.seqnum2 = 1
    /\ Len(fs.dat.bytes) > obj.dat_end

\* no seqnum lower than X is read from w
NothingBelow(w, X) ==
    \A S \in 0..(X - 1) : ldb_read(w, S, 1).ret = LDB_ERR_NOT_FOUND

\* what ldb_purge(X) that returned r left after it, first being the seqnum1
\* expected
Purged(X, r, first) ==
    r.ret >= 0 =>
        /\ r.w.obj.state.seqnum1 = first
        /\ NothingBelow(r.w, X)

(***************************************************************************)
(* C18.  In every reachable state of an open database and for every X,     *)
(* a call of ldb_purge(X) that returns no error leaves seqnum1 equal to    *)
(* max(old seqnum1, X) and no seqnum lower than X readable.                *)
(***************************************************************************)
C18_PurgeMax ==
    ldb_is_valid_db(obj) =>
        \A X \in 0..MaxSeqnum + 1 :
            Purged(X, ldb_purge(W, X), ldb_max(obj.state.seqnum1, X))

(***************************************************************************)
(* C18, amended.  As C18, with seqnum1 equal to max(old seqnum1, X) when   *)
(* the log is not empty and X is not above the old seqnum2, and to 0 when  *)
(* the log is empty or X is above the old seqnum2 (the log is left empty,  *)
(* with seqnum1 = seqnum2 = 0).                                            *)
(***************************************************************************)
C18_PurgePost ==
    ldb_is_valid_db(obj) =>
        \A X \in 0..MaxSeqnum + 1 :
            Purged(X, ldb_purge(W, X),
                   IF obj.state.seqnum1 = 0 \/ X > obj.state.seqnum2 THEN 0
                   ELSE ldb_max(obj.state.seqnum1, X))

\* C18's case: a purge removed two of three records, and the seqnum below
\* the one kept is not read
C18_Witness ==
    /\ res.op = "purge" /\ res.ret = 2
    /\ obj.state.seqnum1 = 3 /\ obj.state.seqnum2 = 3
    /\ ldb_read(W, 2, 1).ret = LDB_ERR_NOT_FOUND

\* the number of records of the data file of w up to dat_end
RecordCount(w) ==
    Len(RecordsUpTo(FlushDat(w).fs.dat.bytes, sizeof_header_dat, w.obj.dat_end))

\* a value returned that is no error is the number of records that the call
\* removed, in the state and in the data file
ReturnsRemoved(r) ==
    r.ret >= 0 =>
        /\ r.ret = StateCount(obj.state) - StateCount(r.w.obj.state)
        /\ r.ret = RecordCount(W) - RecordCount(r.w)

\* rb is what ldb_rollback(X) returned and pg what ldb_purge(X) returned
ReturnsCount(X, rb, pg) ==
    /\ ReturnsRemoved(rb)
    /\ ReturnsRemoved(pg)
    /\ obj.state.seqnum1 = 0 => rb.ret = 0 /\ pg.ret = 0
    /\ X >= obj.state.seqnum2 => rb.ret = 0
    /\ X <= obj.state.seqnum1 => pg.ret = 0
    /\ X < obj.state.seqnum1 => rb.ret = StateCount(obj.state)
    /\ X > obj.state.seqnum2 => pg.ret = StateCount(obj.state)

(***************************************************************************)
(* C19.  In every reachable state of an open database and for every X, a   *)
(* value returned by ldb_rollback(X) or ldb_purge(X) that is not negative  *)
(* is the number of records removed (count before minus count after, an    *)
(* empty log counting 0).  The value is 0 on an empty log for every X, 0   *)
(* for rollback(X) with X >= seqnum2 and for purge(X) with X <= seqnum1,   *)
(* and the whole count for rollback(X) with X < seqnum1 and for purge(X)   *)
(* with X > seqnum2.                                                       *)
(***************************************************************************)
C19_ReturnsRemovedCount ==
    ldb_is_valid_db(obj) =>
        \A X \in 0..MaxSeqnum + 1 :
            ReturnsCount(X, ldb_rollback(W, X), ldb_purge(W, X))

\* C19's case: a rollback returned the whole count of a log of three records,
\* whose index records it set to zero
C19_Witness ==
    /\ res.op = "rollback" /\ res.ret = 3
    /\ obj.state.seqnum1 = 0 /\ obj.state.seqnum2 = 0
    /\ Len(fs.idx.bytes) = sizeof_header_idx + 3 * sizeof_record_idx

\* a is what read(S, 1) returned before and b what it returns after: when the
\* entry was read before, it is read after, the same
SameRead(a, b, S) ==
    ReadsOne(a, S) => ReadsEntry(b, a.entries[1])

\* the state of w keeps the end of the log of obj and starts at X, whose
\* entry was x
KeepsEnd(w, X, x) ==
    /\ w.obj.state.seqnum1 = X
    /\ w.obj.state.seqnum2 = obj.state.seqnum2
    /\ w.obj.state.timestamp2 = obj.state.timestamp2
    /\ ReadsOne(x, X) => w.obj.state.timestamp1 = x.entries[1].timestamp

\* the entries from X on are read from w as they are read now
KeepsEntries(w, X) ==
    \A S \in X..obj.state.seqnum2 :
        SameRead(ldb_read(W, S, 1), ldb_read(w, S, 1), S)

Survives(w, X) == KeepsEnd(w, X, ldb_read(W, X, 1)) /\ KeepsEntries(w, X)

\* o is what the ldb_open that follows ldb_close returned
SurvivesReopen(o, X) == o.ret = LDB_OK /\ Survives(o.w, X)

\* r is what ldb_purge(X) returned
PurgeKeeps(X, r) ==
    r.ret >= 0 =>
        /\ Survives(r.w, X)
        /\ \A check \in BOOLEAN :
              SurvivesReopen(ldb_open(ldb_close(r.w).w, check, "none"), X)

(***************************************************************************)
(* C20.  In every reachable state of an open database and for every X      *)
(* with seqnum1 < X <= seqnum2, a call of ldb_purge(X) that returns no     *)
(* error leaves seqnum2 and timestamp2 unchanged and timestamp1 equal to   *)
(* the timestamp of X, and every S of [X..seqnum2] is read by read(S, 1)   *)
(* with the seqnum, timestamp, metadata and data read before the purge;    *)
(* the same holds after ldb_close and ldb_open.                            *)
(***************************************************************************)
C20_PurgeKeepsSurvivors ==
    ldb_is_valid_db(obj) =>
        \A X \in (obj.state.seqnum1 + 1)..obj.state.seqnum2 :
            PurgeKeeps(X, ldb_purge(W, X))

\* the offset one past the payload of the record of seqnum, found by walking
\* the records of bytes from pos on; -1 if the walk meets no such record
RECURSIVE PayloadEnd(_, _, _)
PayloadEnd(bytes, pos, seqnum) ==
    LET r == ldb_read_record_dat(bytes, pos, FALSE)
        next == pos + sizeof_record_dat + r.record.metadata_len + r.record.data_len
    IN  IF r.ret # LDB_OK \/ r.record.seqnum = 0 \/ next > Len(bytes) THEN -1
        ELSE IF r.record.seqnum = seqnum THEN next
        ELSE PayloadEnd(bytes, next, seqnum)

\* dat_end of w is where the record of seqnum2 ends in the data file
EndsAtLast(w) ==
    w.obj.dat_end =
        IF w.obj.state.seqnum2 = 0 THEN sizeof_header_dat
        ELSE PayloadEnd(w.fs.dat.bytes, sizeof_header_dat, w.obj.state.seqnum2)

(***************************************************************************)
(* C21.  In every reachable state of an open database, between two calls,  *)
(* dat_end is the offset of the data file one past the last byte of the    *)
(* payload of the record of seqnum2, and the size of the data header when  *)
(* the log is empty.                                                       *)
(***************************************************************************)
C21_DatEndAfterLast ==
    ldb_is_valid_db(obj) => EndsAtLast(W)

\* C21's case: a rollback moved dat_end back to the end of the second of
\* three records
C21_Witness ==
    /\ res.op = "rollback" /\ res.ret = 1
    /\ obj.state.seqnum1 = 1 /\ obj.state.seqnum2 = 2
    /\ obj.dat_end = sizeof_header_dat + 2 * (sizeof_record_dat + 2)
    /\ Len(fs.dat.bytes) > obj.dat_end

\* the offset of the index file just after the record of seqnum2
IdxEnd(state) ==
    IF state.seqnum1 = 0 THEN sizeof_header_idx
    ELSE ldb_get_pos_idx(state, state.seqnum2) + sizeof_record_idx

\* the index bytes hold zeros after the record of seqnum2
IdxZerosBeyond(bytes, state) ==
    \A c \in (IdxEnd(state) + 1)..Len(bytes) : bytes[c] = 0

\* no index record of seqnum1..seqnum2 that bytes holds is all zeros
NoZeroSlot(bytes, state) ==
    state.seqnum1 # 0 =>
        \A s \in state.seqnum1..state.seqnum2 :
            ReadAt(bytes, ldb_get_pos_idx(state, s), sizeof_record_idx)
                # Zeros(sizeof_record_idx)

\* no record of the data file up to dat_end is all zeros
NoZeroRecord(records) ==
    \A i \in 1..Len(records) :
        records[i].ret = LDB_OK /\ records[i].record # ZeroRecordDat

(***************************************************************************)
(* C22.  In every reachable state of an open database, between two calls,  *)
(* the data file holds zeros from dat_end on and the index holds zeros     *)
(* after the record of seqnum2 (in the file, and in the file completed     *)
(* with what the stream of the index still holds); no data record up to    *)
(* dat_end and no index record of seqnum1..seqnum2 is all zeros.           *)
(***************************************************************************)
C22_ZerosOutsideLiveRange ==
    ldb_is_valid_db(obj) =>
        /\ ZerosBeyond(W)
        /\ IdxZerosBeyond(fs.idx.bytes, obj.state)
        /\ IdxZerosBeyond(FlushIdx(W).fs.idx.bytes, obj.state)
        /\ NoZeroRecord(LiveRecords)
        /\ NoZeroSlot(fs.idx.bytes, obj.state)
        /\ NoZeroSlot(FlushIdx(W).fs.idx.bytes, obj.state)

\* o is what ldb_open returned after ldb_close: the state is the one of obj
RoundTrip(o) == o.ret = LDB_OK /\ o.w.obj.state = obj.state

(***************************************************************************)
(* C23.  In every reachable state of an open database, ldb_close followed  *)
(* by ldb_open, with check true or false, returns LDB_OK and gives the     *)
(* seqnum1, seqnum2, timestamp1, timestamp2 and milestone that the         *)
(* database had before the close.                                          *)
(***************************************************************************)
C23_OpenCloseRoundTrip ==
    ldb_is_valid_db(obj) =>
        \A check \in BOOLEAN :
            RoundTrip(ldb_open(ldb_close(W).w, check, "none"))

\* C23's case: a database purged, then given a milestone, was closed and
\* opened again
C23_Witness ==
    /\ res.op = "open" /\ res.ret = LDB_OK
    /\ obj.state.seqnum1 = 2 /\ obj.state.seqnum2 = 3
    /\ obj.state.milestone = 1

\* r is what a call returned without error: the milestone is the one of obj
KeepsMilestone(r) ==
    r.ret >= 0 => r.w.obj.state.milestone = obj.state.milestone

\* u is what ldb_update_milestone(v) returned
SetsMilestone(u, v) ==
    u.ret = LDB_OK => u.w.obj.state.milestone = v

(***************************************************************************)
(* C24.  In every reachable state of an open database, a call of           *)
(* ldb_update_milestone(v) that returns LDB_OK leaves the milestone v in   *)
(* the state, and no call of ldb_append, ldb_rollback or ldb_purge, and    *)
(* no ldb_close followed by ldb_open, changes the milestone of the state:  *)
(* the value set is reported until the next ldb_update_milestone.          *)
(***************************************************************************)
C24_MilestoneKept ==
    ldb_is_valid_db(obj) =>
        /\ \A v \in Milestones : SetsMilestone(ldb_update_milestone(W, v), v)
        /\ \A in \in CrashCalls :
              KeepsMilestone(ldb_append(W, in.entries, in.millis, in.fault))
        /\ \A X \in 0..MaxSeqnum + 1 : KeepsMilestone(ldb_rollback(W, X))
        /\ \A X \in 0..MaxSeqnum + 1 : KeepsMilestone(ldb_purge(W, X))
        /\ \A check \in BOOLEAN :
              KeepsMilestone(ldb_open(ldb_close(W).w, check, "none"))

\* the files and the object that a kill leaves of w: what the streams hold
\* is lost
KilledAt(w) == [fs |-> w.fs, obj |-> ClosedObj]

\* o is what the ldb_open that follows the kill returned
ReportsMilestone(o, v) == o.ret = LDB_OK /\ o.w.obj.state.milestone = v

\* u is what ldb_update_milestone(v) returned just before the kill
MilestoneSurvives(u, v) ==
    u.ret = LDB_OK =>
        \A check \in BOOLEAN :
            ReportsMilestone(ldb_open(KilledAt(u.w), check, "none"), v)

(***************************************************************************)
(* C25.  In every reachable state of an open database and for every v, if  *)
(* the process is killed just after ldb_update_milestone(v) returned       *)
(* LDB_OK, the next ldb_open returns LDB_OK and reports the milestone v.   *)
(***************************************************************************)
C25_MilestoneFlushed ==
    ldb_is_valid_db(obj) =>
        \A v \in Milestones : MilestoneSurvives(ldb_update_milestone(W, v), v)

\* what the spec says of the result r of ldb_read(seqnum, len) on a database
\* with this state
ReadContract(state, seqnum, len, r) ==
    IF seqnum = 0 \/ seqnum < state.seqnum1 \/ seqnum > state.seqnum2
    THEN r.ret = LDB_ERR_NOT_FOUND /\ r.num = 0
    ELSE /\ r.ret = LDB_OK
         /\ r.num = IF len < state.seqnum2 - seqnum + 1
                    THEN len ELSE state.seqnum2 - seqnum + 1
         /\ \A i \in 1..r.num : r.entries[i].seqnum = seqnum + i - 1
         /\ \A i \in r.num + 1..len : r.entries[i].seqnum = 0

\* the lengths of the array given to ldb_read
ReadLens == 1..MaxBatch + 1

(***************************************************************************)
(* C26.  In every reachable state of an open database, for every seqnum    *)
(* and every n >= 1, ldb_read(seqnum, n) returns LDB_ERR_NOT_FOUND with    *)
(* num = 0 when the log is empty, seqnum is 0, seqnum < seqnum1 or seqnum  *)
(* > seqnum2; otherwise it returns LDB_OK with num = min(n, seqnum2 -      *)
(* seqnum + 1), the entries 1..num have the seqnums seqnum, seqnum + 1,    *)
(* ... in order, and every entry after them has seqnum 0.                  *)
(***************************************************************************)
C26_ReadContract ==
    ldb_is_valid_db(obj) =>
        \A seqnum \in 0..MaxSeqnum + 1, len \in ReadLens :
            ReadContract(obj.state, seqnum, len, ldb_read(W, seqnum, len))

\* the number of cells that the records a..b take in the data file, by the
\* entries that were appended
RECURSIVE DataSize(_, _)
DataSize(a, b) == IF b < a THEN 0 ELSE EntrySize(log[b]) + DataSize(a, b - 1)

\* the statistics that the spec gives for the entries a..b of the log
StatsFor(a, b) ==
    [min_seqnum |-> a, max_seqnum |-> b,
     min_timestamp |-> log[a].timestamp, max_timestamp |-> log[b].timestamp,
     num_entries |-> b - a + 1,
     index_size |-> (b - a + 1) * sizeof_record_idx,
     data_size |-> DataSize(a, b)]

\* what the spec says of the result r of ldb_stats(lo, hi) on a database
\* with this state
StatsContract(state, lo, hi, r) ==
    IF hi < lo THEN r.ret = LDB_ERR_ARG
    ELSE IF state.seqnum1 = 0 \/ hi < state.seqnum1 \/ state.seqnum2 < lo
    THEN r.ret = LDB_OK /\ r.stats = ZeroStats
    ELSE /\ r.ret = LDB_OK
         /\ r.stats = StatsFor(IF lo < state.seqnum1 THEN state.seqnum1 ELSE lo,
                               IF state.seqnum2 < hi THEN state.seqnum2 ELSE hi)

(***************************************************************************)
(* C27.  In every reachable state of an open database and for every lo,    *)
(* hi, ldb_stats(lo, hi) returns LDB_ERR_ARG when hi < lo; LDB_OK with all *)
(* the fields zero when the log is empty or [lo, hi] is disjoint from      *)
(* [seqnum1, seqnum2]; otherwise LDB_OK with min_seqnum = max(lo,          *)
(* seqnum1), max_seqnum = min(hi, seqnum2), num_entries = max_seqnum -     *)
(* min_seqnum + 1, min_timestamp and max_timestamp the timestamps of those *)
(* two entries, index_size = num_entries * sizeof(ldb_record_idx_t) and    *)
(* data_size the size of the records min_seqnum..max_seqnum in the data    *)
(* file.                                                                   *)
(***************************************************************************)
C27_StatsContract ==
    ldb_is_valid_db(obj) =>
        \A lo \in 0..MaxSeqnum + 1, hi \in 0..MaxSeqnum + 1, stats \in UninitStats :
            StatsContract(obj.state, lo, hi, ldb_stats(W, lo, hi, stats))

(***************************************************************************)
(* Observers of the damaged data file.                                     *)
(***************************************************************************)
\* ldb_open has just returned, on the data file that held the records of log
\* as they were written
OpenedWritten == res.op = "open" /\ before.dat.bytes = WrittenDat(log)

\* the database is not open: no stream, no descriptor, the state all zero
NotOpened ==
    /\ ~obj.dat_fp /\ ~obj.idx_fp /\ ~obj.dat_fd /\ ~obj.idx_fd
    /\ obj.state = ZeroState

\* the record k follows the record k - 1: next seqnum, timestamp not lower
InOrder(k) ==
    /\ log[k].entry.seqnum = log[k - 1].entry.seqnum + 1
    /\ log[k].entry.timestamp >= log[k - 1].entry.timestamp

\* the records 1..k were written whole and in order
WholeUpTo(k) ==
    \A j \in 1..k : log[j].damage = "none" /\ (j > 1 => InOrder(j))

\* ldb_open failed with ret and left the data file as it was
FailedWith(ret) == res.ret = ret /\ NotOpened /\ fs.dat = before.dat

(***************************************************************************)
(* C28.  When ldb_open(check = true) is called on a data file in which the *)
(* records before the record k > 1 are whole and in order, and the record  *)
(* k is whole (checksum valid) with a seqnum that is not the previous one  *)
(* + 1 or a timestamp lower than the previous one, it returns              *)
(* LDB_ERR_FMT_DAT, the database is not opened and the data file is left   *)
(* as it was (the record is not set to zero).                              *)
(***************************************************************************)
C28_OutOfOrderFails ==
    OpenedWritten /\ before.check =>
        \A k \in 2..Len(log) :
            WholeUpTo(k - 1) /\ log[k].damage = "none" /\ ~InOrder(k) =>
                FailedWith(LDB_ERR_FMT_DAT)

C28_Witness ==
    /\ OpenedWritten /\ before.check
    /\ Len(log) = 2 /\ WholeUpTo(1) /\ log[2].damage = "none"
    /\ log[2].entry.seqnum = log[1].entry.seqnum + 1
    /\ log[2].entry.timestamp < log[1].entry.timestamp
    /\ res.ret = LDB_ERR_FMT_DAT

(***************************************************************************)
(* C29.  When ldb_open(check = true) is called on a data file in which the *)
(* records before the record k > 1 are whole and in order, and the record  *)
(* k is complete and in order but its stored checksum is not the one of    *)
(* its content, it returns LDB_ERR_CHECKSUM, the database is not opened    *)
(* (no record is accepted) and the data file is left as it was.            *)
(***************************************************************************)
C29_BadChecksumFails ==
    OpenedWritten /\ before.check =>
        \A k \in 2..Len(log) :
            WholeUpTo(k - 1) /\ log[k].damage = "checksum" /\ InOrder(k) =>
                FailedWith(LDB_ERR_CHECKSUM)

C29_Witness ==
    /\ OpenedWritten /\ before.check
    /\ Len(log) = 2 /\ WholeUpTo(1) /\ log[2].damage = "checksum" /\ InOrder(2)
    /\ res.ret = LDB_ERR_CHECKSUM
    /\ Len(fs.dat.bytes) = sizeof_header_dat + 2 * EntrySize(log[1].entry)

\* the cells of the data file that was opened, where its first record is
FirstCells ==
    SubSeq(before.dat.bytes, sizeof_header_dat + 1,
           sizeof_header_dat + EntrySize(log[1].entry))

\* the header of the first record is in the file, the file ends before the
\* end of its payload
FirstIncomplete ==
    /\ Len(log) >= 1
    /\ sizeof_header_dat + sizeof_record_dat <= Len(before.dat.bytes)
    /\ Len(before.dat.bytes) < sizeof_header_dat + EntrySize(log[1].entry)

\* the first record is in the file up to the end of its payload, with a
\* checksum or a payload that is not the one written
FirstCorrupt ==
    /\ Len(log) >= 1
    /\ sizeof_header_dat + EntrySize(log[1].entry) <= Len(before.dat.bytes)
    /\ FirstCells # EntryCells(log[1].entry)

\* ldb_open took the first record for absent
FirstAbsent ==
    /\ res.ret = LDB_OK
    /\ obj.state.seqnum1 = 0 /\ obj.state.seqnum2 = 0
    /\ obj.dat_end = sizeof_header_dat
    /\ fs.dat.bytes = Zeroize(before.dat.bytes, sizeof_header_dat)

(***************************************************************************)
(* C30.  When ldb_open is called on a data file whose first record has its *)
(* header in the file and a checksum that does not verify, or a payload    *)
(* that is incomplete or corrupt, it returns LDB_OK with an empty log      *)
(* (seqnum1 = seqnum2 = 0, dat_end = size of the header of the data file)  *)
(* and the file is all zero from the start of that record on.              *)
(***************************************************************************)
C30_FirstDamagedAbsent ==
    OpenedWritten /\ (FirstIncomplete \/ FirstCorrupt) => FirstAbsent

(***************************************************************************)
(* C30, amended.  When ldb_open is called on a data file whose first       *)
(* record has its header in the file: if the file ends before the end of   *)
(* its payload, ldb_open returns LDB_OK with an empty log (seqnum1 =       *)
(* seqnum2 = 0, dat_end = size of the header of the data file) and the     *)
(* file is all zero from the start of that record on; if the payload is    *)
(* all there and the checksum does not verify, ldb_open returns            *)
(* LDB_ERR_CHECKSUM, the database is not opened and the data file is left  *)
(* as it was.                                                              *)
(***************************************************************************)
C30_FirstIncompleteAbsent ==
    OpenedWritten =>
        /\ FirstIncomplete => FirstAbsent
        /\ FirstCorrupt => FailedWith(LDB_ERR_CHECKSUM)

C30_Witness ==
    /\ OpenedWritten /\ FirstIncomplete /\ FirstAbsent
    /\ log[1].damage = "short"
    /\ Len(fs.dat.bytes) = sizeof_header_dat + EntrySize(log[1].entry) - 1

\* the call c on the closed handle returns the generic error and leaves the
\* object and the files as they are
Refused(c) ==
    /\ CallOf(W, c).ret = LDB_ERR
    /\ CallOf(W, c).w.obj.state = obj.state
    /\ CallOf(W, c).w.fs = fs
    /\ ~ldb_is_valid_db(CallOf(W, c).w.obj)

StateAssigned == obj'.state # obj.state

\* a step in which the thread r copies obj->state
StateCopied(r) == th.reader[r].pc = "r_copy" /\ th'.reader[r].pc = "r_read"

(***************************************************************************)
(* C32.  In every interleaving of the thread that writes and of the        *)
(* threads that read, every step that assigns obj->state (in ldb_append,   *)
(* ldb_rollback, ldb_purge) is made by the thread that writes while it     *)
(* holds mutex_data, and every step in which a thread that reads copies    *)
(* obj->state is made while that thread holds mutex_data.                  *)
(***************************************************************************)
C32_StateUnderDataMutex ==
    [][/\ StateAssigned => th.data = "w"
       /\ \A r \in Readers : StateCopied(r) => th.data = r]_vars

\* the timestamp of the record sn of the data file
TimestampOf(sn) == LiveRecords[sn - obj.state.seqnum1 + 1].record.timestamp

\* b brackets the answer of the search of T
Bracketed(b, T, mode) ==
    /\ obj.state.seqnum1 <= b.sn1 /\ b.sn1 < b.sn2 /\ b.sn2 <= obj.state.seqnum2
    /\ b.ts1 = TimestampOf(b.sn1) /\ b.ts2 = TimestampOf(b.sn2)
    /\ IF mode = LDB_SEARCH_LOWER THEN b.ts1 < T /\ T <= b.ts2
                                  ELSE b.ts1 <= T /\ T < b.ts2

\* the brackets of t hold at every test of the loop, get narrower at each
\* turn, and the loop ends on two neighbours of which the second is r
BracketsNarrow(t, T, mode, r) ==
    /\ t.ret = LDB_OK
    /\ \A i \in 1..Len(t.brackets) : Bracketed(t.brackets[i], T, mode)
    /\ \A i \in 1..Len(t.brackets) - 1 :
          t.brackets[i + 1].sn2 - t.brackets[i + 1].sn1
            < t.brackets[i].sn2 - t.brackets[i].sn1
    /\ LET b == t.brackets[Len(t.brackets)]
       IN  b.sn2 = b.sn1 + 1 /\ r.ret = LDB_OK /\ r.seqnum = b.sn2

(***************************************************************************)
(* C33.  In every reachable state of an open database, for every timestamp *)
(* T and both modes for which ldb_search_by_ts reaches its loop: at every  *)
(* test of the condition of the loop seqnum1 <= sn1 < sn2 <= seqnum2, ts1  *)
(* and ts2 are the timestamps of the records sn1 and sn2, ts1 < T <= ts2   *)
(* in mode lower and ts1 <= T < ts2 in mode upper; sn2 - sn1 is smaller    *)
(* after each turn; the loop is left with sn2 = sn1 + 1 and the seqnum     *)
(* returned is sn2.                                                        *)
(***************************************************************************)
C33_SearchBracket ==
    ldb_is_valid_db(obj) =>
        \A T \in 0..MaxTimestamp + 1, mode \in SearchModes :
            SearchEnters(obj.state, T, mode) =>
                BracketsNarrow(SearchTrace(W, obj.state, T, mode, SearchStart(obj.state)),
                               T, mode, ldb_search_by_ts(W, T, mode))

\* C33's case: a search on three records of increasing timestamps went
\* through one turn of its loop and returned the record in the middle
C33_Witness ==
    /\ res.op = "search" /\ res.ret = LDB_OK /\ res.num = 2
    /\ obj.state.seqnum1 = 1 /\ obj.state.seqnum2 = 3
    /\ Len(SearchTrace(W, obj.state, obj.state.timestamp1 + 1, LDB_SEARCH_LOWER,
                       SearchStart(obj.state)).brackets) = 2

\* the size of the records of the first n entries of es
RECURSIVE SizeOfEntries(_, _)
SizeOfEntries(es, n) ==
    IF n = 0 THEN 0 ELSE SizeOfEntries(es, n - 1) + EntrySize(es[n])

\* the call in refuses the write of the index record of its entry k
IdxFaultAt(in, k) == k \in DOMAIN in.fault /\ in.fault[k] = "idx"

\* r, returned by the call in whose index write of entry k was refused,
\* reports k - 1 entries
ReportsBefore(in, r, k) == r.ret = LDB_ERR_WRITE_IDX /\ r.num = k - 1

\* the state that r left ends at the last entry reported
Seqnum2Follows(r) ==
    r.w.obj.state.seqnum2 = IF r.num = 0 THEN obj.state.seqnum2
                                         ELSE r.entries[r.num].seqnum

\* dat_end has moved by the records of the entries reported
DatEndFollows(r) ==
    r.w.obj.dat_end = obj.dat_end + SizeOfEntries(r.entries, r.num)

(***************************************************************************)
(* C34.  In every reachable state of an open database, for every call of   *)
(* ldb_append in which the write of the index record of entry k is refused *)
(* after its data record was written: the call returns LDB_ERR_WRITE_IDX   *)
(* with num = the number of entries before k, the seqnum2 of the state it  *)
(* leaves is the seqnum of the entry before k (the seqnum2 found when k is *)
(* the first), and dat_end has advanced by the records of those num        *)
(* entries only.                                                           *)
(***************************************************************************)
C34_IndexFailureUnpublished ==
    ldb_is_valid_db(obj) =>
        \A in \in FaultCalls : \A k \in DOMAIN in.entries :
            IdxFaultAt(in, k) =>
                LET r == ldb_append(W, in.entries, in.millis, in.fault)
                IN  /\ ReportsBefore(in, r, k)
                    /\ Seqnum2Follows(r)
                    /\ DatEndFollows(r)

\* the entries appended after a rollback: every seqnum and timestamp, with the
\* payload of the entries rolled back and with a shorter one
AfterRollbackCalls ==
    { MkCall(<< MkEntry(s, t, p) >>, << 1 >>, NoFault(1)) :
        s \in 0..MaxSeqnum + 1, t \in Timestamps,
        p \in { DefaultPayload,
                [metadata_len |-> 1, data_len |-> 0, metadata |-> << 1 >>, data |-> NULL] } }

\* o, returned by ldb_open, left a database that ends at e
ReopenedReads(o, e) ==
    /\ o.ret = LDB_OK
    /\ o.w.obj.state.seqnum2 = e.seqnum
    /\ ReadsEntry(ldb_read(o.w, e.seqnum, 1), e)

\* e is read at its seqnum from w, and again after ldb_close and ldb_open
ReadNowAndReopened(w, e) ==
    /\ ReadsEntry(ldb_read(w, e.seqnum, 1), e)
    /\ \A check \in BOOLEAN :
          ReopenedReads(ldb_open(ldb_close(w).w, check, "none"), e)

\* the append in, made on w where rollback(X) left entries up to X whose
\* timestamp is ts: accepted exactly with the seqnum X + 1 or 0 and a
\* timestamp 0 or >= ts
AppendsAfter(w, X, ts, in) ==
    LET e == in.entries[1]
        a == ldb_append(w, in.entries, in.millis, in.fault)
    IN  /\ (a.ret = LDB_OK) <=>
              (e.seqnum \in {0, X + 1} /\ (e.timestamp = 0 \/ e.timestamp >= ts))
        /\ a.ret = LDB_OK =>
              /\ a.num = 1 /\ a.entries[1].seqnum = X + 1
              /\ a.w.obj.state.seqnum2 = X + 1
              /\ ReadNowAndReopened(a.w, a.entries[1])

\* the append in, made on w where rollback left no entry: accepted with any
\* seqnum other than 0, which is the one the log starts at
AppendsOnEmptied(w, in) ==
    LET e == in.entries[1]
        a == ldb_append(w, in.entries, in.millis, in.fault)
    IN  /\ w.obj.state.seqnum1 = 0 /\ w.obj.state.seqnum2 = 0
        /\ ldb_read(w, obj.state.seqnum1, 1).ret = LDB_ERR_NOT_FOUND
        /\ e.seqnum # 0 =>
              /\ a.ret = LDB_OK /\ a.num = 1
              /\ a.w.obj.state.seqnum1 = e.seqnum /\ a.w.obj.state.seqnum2 = e.seqnum
              /\ ReadNowAndReopened(a.w, a.entries[1])

(***************************************************************************)
(* C35.  In every reachable state of an open database that holds entries   *)
(* and for every X for which ldb_rollback(X) returns without error: when   *)
(* seqnum1 <= X < seqnum2, the ldb_append of one entry that follows is     *)
(* accepted exactly when the seqnum of the entry is X + 1 or 0 (then X + 1 *)
(* is assigned) and its timestamp is 0 or at least the timestamp of the    *)
(* entry X, and the entry appended is what ldb_read(X + 1, 1) returns,     *)
(* also after ldb_close and ldb_open; when X < seqnum1, the log is empty   *)
(* after the rollback and the append of an entry of any seqnum other than  *)
(* 0 is accepted, the log then starting at that seqnum.                    *)
(***************************************************************************)
C35_RollbackThenAppend ==
    ldb_is_valid_db(obj) /\ obj.state.seqnum1 # 0 =>
        \A X \in 0..obj.state.seqnum2 - 1 :
            LET rb == ldb_rollback(W, X)
            IN  rb.ret >= 0 =>
                    \A in \in AfterRollbackCalls :
                        IF X >= obj.state.seqnum1
                        THEN AppendsAfter(rb.w, X, TimestampOf(X), in)
                        ELSE AppendsOnEmptied(rb.w, in)

\* C35's case: entries were rolled back (the data file is longer than
\* dat_end) and an entry appended after the entry 1 that was kept, which is
\* the one read at its seqnum
C35_Witness ==
    /\ res.op = "append" /\ res.ret = LDB_OK /\ res.num = 1
    /\ obj.state.seqnum1 = 1 /\ obj.state.seqnum2 = 2
    /\ Len(fs.dat.bytes) > obj.dat_end
    /\ ReadsEntry(ldb_read(W, 2, 1), log[2])

\* a and b, returned by two calls of ldb_open, both opened the database and
\* left the same state and the same dat_end
OpenedAlike(a, b) ==
    /\ a.ret = LDB_OK /\ b.ret = LDB_OK
    /\ ldb_is_valid_db(a.w.obj) /\ ldb_is_valid_db(b.w.obj)
    /\ a.w.obj.state.seqnum1 = b.w.obj.state.seqnum1
    /\ a.w.obj.state.timestamp1 = b.w.obj.state.timestamp1
    /\ a.w.obj.state.seqnum2 = b.w.obj.state.seqnum2
    /\ a.w.obj.state.timestamp2 = b.w.obj.state.timestamp2
    /\ a.w.obj.dat_end = b.w.obj.dat_end

(***************************************************************************)
(* C36.  In every reachable state in which the database is closed, its     *)
(* files being those that ldb_append, ldb_rollback and ldb_purge wrote and *)
(* ldb_close closed (the zeros that a rollback leaves at the end of both   *)
(* files included), ldb_open with check = true and ldb_open with check =   *)
(* false both return LDB_OK and leave the same seqnum1, timestamp1,        *)
(* seqnum2, timestamp2 and dat_end.                                        *)
(***************************************************************************)
C36_CheckEquivalent ==
    res.op = "close" =>
        OpenedAlike(ldb_open(W, TRUE, "none"), ldb_open(W, FALSE, "none"))

\* C36's case: a database of which entries were rolled back (zeros follow
\* dat_end in the data file) was closed and opened again with its entries
C36_Witness ==
    /\ res.op = "open" /\ res.ret = LDB_OK
    /\ obj.state.seqnum1 # 0 /\ obj.state.seqnum2 > obj.state.seqnum1
    /\ Len(fs.dat.bytes) > obj.dat_end

\* the range of the state is the one that the interrupted trim found
RangeBefore ==
    /\ obj.state.seqnum1 = trim.state.seqnum1
    /\ obj.state.timestamp1 = trim.state.timestamp1
    /\ obj.state.seqnum2 = trim.state.seqnum2
    /\ obj.state.timestamp2 = trim.state.timestamp2

\* the range of the state is the one that rollback(trim.seqnum) leaves
RangeRolledBack ==
    IF trim.seqnum < trim.state.seqnum1
    THEN /\ obj.state.seqnum1 = 0 /\ obj.state.timestamp1 = 0
         /\ obj.state.seqnum2 = 0 /\ obj.state.timestamp2 = 0
    ELSE /\ obj.state.seqnum1 = trim.state.seqnum1
         /\ obj.state.timestamp1 = trim.state.timestamp1
         /\ obj.state.seqnum2 = trim.seqnum
         /\ obj.state.timestamp2 = log[trim.seqnum].timestamp

(***************************************************************************)
(* C37.  When the process is killed at any step of ldb_rollback(X) with X  *)
(* < seqnum2 (the index records zeroed one after the other from the last   *)
(* one down, then the data file zeroed from the new dat_end up), the next  *)
(* ldb_open returns LDB_OK and the range of its state is either the one    *)
(* found before the rollback or the one that the rollback leaves (up to X, *)
(* empty when X < seqnum1): it never ends strictly between X and the old   *)
(* seqnum2.                                                                *)
(***************************************************************************)
C37_RollbackAllOrNothing ==
    Crashed /\ trim.op = "rollback" =>
        /\ res.ret = LDB_OK
        /\ ldb_is_valid_db(obj)
        /\ RangeBefore \/ RangeRolledBack

\* C37's case: rollback(1) of the entries 1..3 was killed when the index
\* record of 3 was zeroed and that of 2 was not; ldb_open gives 1..3
C37_Witness ==
    /\ Crashed /\ trim.op = "rollback" /\ trim.stop = "idx_zeroed"
    /\ trim.seqnum = 1 /\ trim.state.seqnum1 = 1 /\ trim.state.seqnum2 = 3
    /\ before.idx.bytes[Len(before.idx.bytes) - 2] = 0
    /\ before.idx.bytes[Len(before.idx.bytes) - 5] = 2
    /\ res.ret = LDB_OK /\ RangeBefore

\* the mutation of C38: the index stream is flushed before the data stream
AppendStops_IdxFirst(l) ==
    IF l.i = 1 THEN { l.w.fs }
    ELSE { l.w.fs, FlushIdx(l.w).fs, FlushIdx(FlushDat(l.w)).fs }

\* the files on disk at the steps of ldb_append at which the process may be
\* killed, l being the outcome of its loop: nothing flushed, the data stream
\* flushed, both streams flushed
AppendStops(l) ==
    IF l.i = 1 THEN { l.w.fs }
    ELSE { l.w.fs, FlushDat(l.w).fs, FlushIdx(FlushDat(l.w)).fs }

\* the whole records of the index file f, in file order
IndexRecords(f) ==
    IF ~f.exists THEN << >>
    ELSE [k \in 1..((ldb_max(Len(f.bytes), sizeof_header_idx) - sizeof_header_idx)
                        \div sizeof_record_idx) |->
            RecordIdxOf(ReadAt(f.bytes, sizeof_header_idx + (k - 1) * sizeof_record_idx,
                               sizeof_record_idx))]

\* the data file dat holds, whole, the record that the index record rec tells
HoldsRecord(dat, rec) ==
    /\ dat.exists
    /\ ldb_read_record_dat(dat.bytes, rec.pos, TRUE).ret = LDB_OK
    /\ ldb_read_record_dat(dat.bytes, rec.pos, TRUE).record.seqnum = rec.seqnum

\* no record of the index of the files f is ahead of the data file
IndexBehind(f) ==
    \A k \in DOMAIN IndexRecords(f.idx) :
        IndexRecords(f.idx)[k].seqnum # 0 => HoldsRecord(f.dat, IndexRecords(f.idx)[k])

\* IndexBehind at every step of every ldb_append made on the open database
AppendKeepsBehind(Behind(_)) ==
    ldb_is_valid_db(obj) =>
        \A in \in ThreadCalls :
            \A f \in AppendStops(AppendLoop(W, obj.state, in.entries, 1, in.millis, in.fault)) :
                Behind(f)

(***************************************************************************)
(* C38 as stated.  At every step at which the process may be killed inside *)
(* ldb_append (each flush being one step), and in the files that a kill    *)
(* inside ldb_rollback or ldb_purge leaves, every record of the index file *)
(* whose seqnum is not 0 tells the offset of a record of the data file     *)
(* that has the same seqnum and is whole in the data file.                 *)
(***************************************************************************)
C38_IndexNeverAhead ==
    /\ AppendKeepsBehind(IndexBehind)
    /\ res.op = "kill" => IndexBehind(fs)

\* no record of the index of the files f is ahead of the data file, or there
\* is no data file
BehindOrAlone(f) == f.dat.exists => IndexBehind(f)

(***************************************************************************)
(* C38, amended.  The same at every step at which the data file exists.    *)
(*  The data file does not exist, while the index file still holds its     *)
(* records, only when ldb_purge is killed while it removes all the         *)
(* entries, after the removal of the data file and before the removal of   *)
(* the index file.                                                         *)
(***************************************************************************)
C38_IndexBehindData ==
    /\ AppendKeepsBehind(BehindOrAlone)
    /\ res.op = "kill" =>
          /\ BehindOrAlone(fs)
          /\ ~IndexBehind(fs) =>
                /\ trim.op = "purge" /\ trim.seqnum > trim.state.seqnum2
                /\ trim.stop = "dat_removed"

\* C38's case: ldb_rollback was killed when it had zeroed the index record
\* of the last entry only, the data file holding all the records
C38_Witness ==
    /\ res.op = "kill" /\ trim.op = "rollback" /\ trim.stop = "idx_zeroed"
    /\ trim.state.seqnum2 - trim.seqnum = 2
    /\ Len(IndexRecords(fs.idx)) = 3
    /\ IndexRecords(fs.idx)[2].seqnum # 0
    /\ IndexRecords(fs.idx)[3].seqnum = 0
    /\ HoldsRecord(fs.dat, [seqnum |-> trim.state.seqnum2,
                        timestamp |-> trim.state.timestamp2,
                        pos |-> sizeof_header_dat + 2 * EntrySize(AutoEntry)])

\* o, returned by ldb_open on the files that ldb_close left in c, opened
\* the database with the state and the dat_end of the database that was
\* closed, and wrote nothing that changes a file
OpensAgain(c, o) ==
    /\ o.ret = LDB_OK
    /\ ldb_is_valid_db(o.w.obj)
    /\ o.w.obj.state = obj.state
    /\ o.w.obj.dat_end = obj.dat_end
    /\ o.w.fs.dat = c.w.fs.dat /\ FlushDat(o.w).fs.dat = c.w.fs.dat
    /\ o.w.fs.idx = c.w.fs.idx /\ FlushIdx(o.w).fs.idx = c.w.fs.idx

(***************************************************************************)
(* C39.  In every state in which ldb_open(check) has returned LDB_OK, on   *)
(* the files of an empty directory or on those that a kill left (a data    *)
(* file cut at any cell, an index file absent, cut at any cell or with a   *)
(* wrong cell), ldb_close followed by ldb_open with the same check returns *)
(* LDB_OK with the same state and the same dat_end, and the second         *)
(* ldb_open changes no cell of the data file nor of the index file.        *)
(***************************************************************************)
C39_RecoveryIdempotent ==
    res.op = "open" /\ res.ret = LDB_OK =>
        OpensAgain(ldb_close(W), ldb_open(ldb_close(W).w, before.check, "none"))

\* C39's case: ldb_open found a data file cut inside its second record,
\* kept the first record and set the rest to zero
C39_Witness ==
    /\ Crashed /\ res.ret = LDB_OK
    /\ obj.state.seqnum1 = 1 /\ obj.state.seqnum2 = 1
    /\ Len(before.dat.bytes) > obj.dat_end
    /\ before.dat.bytes[obj.dat_end + 1] # 0
    /\ FlushDat(W).fs.dat.bytes[obj.dat_end + 1] = 0

\* the thread that writes waits for mutex_files, for mutex_data
WriterWantsFiles == th.writer.pc = "t_lock"

WriterWantsData == th.writer.pc \in {"a_lock", "a_pub_lock"}

\* the thread r waits for mutex_files, for mutex_data
WantsFiles(r) == th.reader[r].pc = "r_lock"

WantsData(r) == th.reader[r].pc = "r_lock_data"

\* the thread that holds mutex_data is at the copy of the state: it waits for
\* no mutex while it holds this one
LockOrder ==
    /\ th.data = "w" => th.writer.pc \in {"a_copy", "a_pub"}
    /\ \A r \in Readers : th.data = r => th.reader[r].pc = "r_copy"

\* a mutex is held by a thread that is inside the function that locked it:
\* no function has returned with a mutex locked
Released ==
    /\ th.files = "w" => th.writer.pc \in {"t_files", "t_state", "t_unlock"}
    /\ \A r \in Readers :
          th.files = r => th.reader[r].pc \in {"r_lock_data", "r_copy", "r_read", "r_unlock"}
    /\ th.writer.pc = "idle" => th.files # "w" /\ th.data # "w"
    /\ \A r \in Readers : th.reader[r].pc = "idle" => th.files # r /\ th.data # r

\* the thread t (a reader, or "w") has a step to take
Runs(t) ==
    IF t = "w"
    THEN /\ WriterWantsFiles => th.files = "none"
         /\ WriterWantsData => th.data = "none"
    ELSE /\ WantsFiles(t) => th.files = "none"
         /\ WantsData(t) => th.data = "none"

\* no thread waits for ever: the holder of mutex_data has a step to take, and
\* the holder of mutex_files has one or waits for mutex_data
NoDeadlock ==
    /\ th.data # "none" => Runs(th.data)
    /\ th.files # "none" => Runs(th.files) \/ th.data # "none"
    /\ \E t \in Readers \cup {"w"} : Runs(t)

(***************************************************************************)
(* C40.  With one thread that writes (ldb_append, ldb_rollback, ldb_purge) *)
(* and the threads that read, all of them scheduled: in every state the    *)
(* thread that holds mutex_data waits for no mutex (mutex_files is never   *)
(* requested while mutex_data is held), no function has returned with a    *)
(* mutex locked, whatever it returns, and no set of threads waits for ever *)
(* (the holder of each mutex has a step to take, or waits for mutex_data   *)
(* whose holder has one); and every thread that waits for a mutex gets it. *)
(***************************************************************************)
C40_DeadlockFree ==
    /\ [](LockOrder /\ Released /\ NoDeadlock)
    /\ \A r \in Readers : WantsFiles(r) ~> (th.files = r)
    /\ \A r \in Readers : WantsData(r) ~> (th.data = r)
    /\ WriterWantsFiles ~> (th.files = "w")
    /\ WriterWantsData ~> (th.data = "w")

\* C40's case: r2 waits for mutex_files, held by r1, which waits for
\* mutex_data, held by the thread that writes, which is publishing its state
C40_Witness ==
    /\ WantsFiles("r2")
    /\ th.files = "r1" /\ WantsData("r1")
    /\ th.data = "w" /\ th.writer.pc = "a_pub"

====
